---------------------------- MODULE Spec2Model ----------------------------
(***************************************************************************)
(* A model of the EasyDict word-analysis pipeline:                         *)
(*   - analyzeWordRoot  (word-root-analyzer, prefix/root/suffix breakdown) *)
(*   - fetchWordFamily  (generate candidate forms, verify, filter, sort)   *)
(*   - lookupWord       (definitions + translation fetch)                  *)
(* Strings are sequences of one-character strings, so that startsWith,     *)
(* endsWith, includes, slice, trim and toLowerCase are computed character  *)
(* by character as the JavaScript does.                                    *)
(***************************************************************************)
EXTENDS Integers, Sequences, FiniteSets, TLC

VARIABLES
  \* analyzeWordRoot(word, origin)
  rootWord,        \* the argument word
  origin,          \* the argument origin (Null or a string)
  lowercased,      \* word.toLowerCase()
  components,      \* the components array
  remainingWord,   \* the mutable window
  foundSuffixes,   \* suffixes found so far, in word order
  tempWord,        \* the window of the suffix loop
  hasContent,      \* the hasContent field of the returned object
  rootPc,          \* position in analyzeWordRoot
  \* fetchWordFamily(word)
  famWord,         \* the argument word
  trimmedWord,     \* word.trim().toLowerCase()
  provider,        \* how the dictionary API answers the request for candidate i
  potentialForms,  \* the candidate forms
  inFlight,        \* the candidates whose verifyWordForm call is pending
  results,         \* the values Promise.all collects, one per candidate
  famForms,        \* the forms field of the returned object
  famHasContent,   \* the hasContent field of the returned object
  famPc,           \* position in fetchWordFamily
  \* lookupWord(word)
  lookWord,            \* the argument word
  lookTrimmedWord,     \* word.trim()
  definitionsReply,    \* how the dictionary API answers
  translationReply,    \* how the translation API answers
  definitionsPromise,  \* the promise of fetchEnglishDefinition
  translationPromise,  \* the promise of fetchChineseTranslation
  englishDefinitions,  \* the local englishDefinitions
  isPhrase,            \* the local isPhrase
  lookOutcome,         \* what lookupWord settles with
  lookPc,              \* position in lookupWord
  lookLog,             \* history: the requests issued, settled and awaited, in order
  \* analyzeWordUsage(word, synonyms)
  usageWord,       \* the argument word
  usageSynonyms,   \* the argument synonyms
  usageAnalysis,   \* the returned object, Null before the return
  usagePc,         \* position in analyzeWordUsage
  \* the search history of the page
  searchHistory,   \* the searchHistory array
  storedHistory,   \* the localStorage item of the history, Null when not set
  searchLog,       \* history variable: the queries searched, latest first
  historyOps,      \* the number of history operations so far
  \* handleSearch, displayResults and displayWordFamily
  query,           \* searchInput.value.trim()
  searchPc,        \* position in handleSearch and displayResults
  familyCardPc,    \* position in displayWordFamily
  currentResult,   \* the currentResult of the page
  loadingIndicator, \* style.display of the loading indicator
  resultsContainer, \* style.display of the results container
  errorBanner,     \* style.display of the error banner
  wordRootCard,    \* style.display of the word root card
  wordFamilyCard,  \* the word family card: none, loading or filled
  wordUsageCard,   \* style.display of the word usage card
  \* handleSearch started again while earlier searches are pending
  searches,          \* history: the searches that reached lookupWord, in order
  pendingLookups,    \* the searches whose lookupWord call is awaited
  pendingFamilies,   \* the searches whose displayWordFamily awaits fetchWordFamily
  runningSearch,     \* the search whose continuation is running, 0 if none
  resultWord,        \* resultWord.textContent
  wordFamilyContent, \* what wordFamilyContent shows: Null, "loading" or forms
  displayedSearch,   \* history: the search whose result was displayed last
  \* AudioPlayer
  audio,           \* this.audio: the index of the Audio object held, 0 for null
  isPlaying,       \* this.isPlaying
  isLoading,       \* this.isLoading
  audios,          \* the Audio objects created, in order, with their state
  stateChange,     \* history: what made the last _notifyStateChange call
  \* the views of the page and the Back stack
  navStack,            \* the navStack array
  shownSection,        \* the section whose style.display is block
  toffleView,          \* 'letters' or 'letter'
  toffleCurrentLetter, \* the letter of the TOEFL word list, or Null
  greView,             \* the same of the GRE section
  greCurrentLetter,
  idiomView,           \* the same of the idioms section
  idiomCurrentLetter,
  lastNav,             \* history: the navigation handler that ran last
  \* the notebook
  notebook,        \* the notebook array
  storedNotebook,  \* the localStorage item of the notebook, Null when not set
  notebookOps,     \* the number of notebook operations so far
  lastNotebookOp   \* history: the notebook handler that ran last, and whether it saved

rootVars == <<rootWord, origin, lowercased, components, remainingWord,
              foundSuffixes, tempWord, hasContent, rootPc>>

famVars == <<famWord, trimmedWord, provider, potentialForms, inFlight, results,
             famForms, famHasContent, famPc>>

lookVars == <<lookWord, lookTrimmedWord, definitionsReply, translationReply,
              definitionsPromise, translationPromise, englishDefinitions,
              isPhrase, lookOutcome, lookPc, lookLog>>

usageVars == <<usageWord, usageSynonyms, usageAnalysis, usagePc>>

histVars == <<searchHistory, storedHistory, searchLog, historyOps>>

dispVars == <<query, searchPc, familyCardPc, currentResult, loadingIndicator,
              resultsContainer, errorBanner, wordRootCard, wordFamilyCard,
              wordUsageCard>>

reVars == <<searches, pendingLookups, pendingFamilies, runningSearch,
            resultWord, wordFamilyContent, displayedSearch>>

audioVars == <<audio, isPlaying, isLoading, audios, stateChange>>

navVars == <<navStack, shownSection, toffleView, toffleCurrentLetter, greView,
             greCurrentLetter, idiomView, idiomCurrentLetter, lastNav>>

noteVars == <<notebook, storedNotebook, notebookOps, lastNotebookOp>>

sideVars == <<reVars, audioVars, navVars, noteVars>>

appVars == <<usageVars, histVars, dispVars, sideVars>>

vars == <<rootVars, famVars, lookVars, appVars>>

-----------------------------------------------------------------------------
(* Strings *)

Range(s) == {s[i] : i \in 1..Len(s)}

Min(a, b) == IF a < b THEN a ELSE b
Max(a, b) == IF a > b THEN a ELSE b

UpperChars == <<"A","B","C","D","E","F","G","H","I","J","K","L","M",
                "N","O","P","Q","R","S","T","U","V","W","X","Y","Z">>
LowerChars == <<"a","b","c","d","e","f","g","h","i","j","k","l","m",
                "n","o","p","q","r","s","t","u","v","w","x","y","z">>

\* The lowercase letter of each uppercase letter
LowerOf ==
  [c \in Range(UpperChars) |->
     LowerChars[CHOOSE i \in 1..Len(UpperChars) : UpperChars[i] = c]]

\* String.prototype.toLowerCase on one character
ToLowerChar(c) == IF c \in DOMAIN LowerOf THEN LowerOf[c] ELSE c

\* String.prototype.toLowerCase
ToLowerCase(s) == SubSeq([i \in 1..Len(s) |-> ToLowerChar(s[i])], 1, Len(s))

\* String.prototype.startsWith
StartsWith(s, p) == Len(p) <= Len(s) /\ SubSeq(s, 1, Len(p)) = p

\* String.prototype.endsWith
EndsWith(s, p) == Len(p) <= Len(s) /\ SubSeq(s, Len(s) - Len(p) + 1, Len(s)) = p

\* String.prototype.includes
Includes(s, p) == \E i \in 1..(Len(s) - Len(p) + 1) : SubSeq(s, i, i + Len(p) - 1) = p

\* s.slice(n) for 0 <= n
SliceFrom(s, n) == SubSeq(s, Min(n, Len(s)) + 1, Len(s))

\* s.slice(0, -n) for n > 0
DropLast(s, n) == SubSeq(s, 1, Max(Len(s) - n, 0))

\* null, and a string value where null is possible
Null == [type |-> "null"]
Str(s) == [type |-> "string", chars |-> s]


-----------------------------------------------------------------------------
(* A function that is not running *)

Pending == [type |-> "pending"]

RootIdle ==
  /\ rootWord = <<>>
  /\ origin = Null
  /\ lowercased = <<>>
  /\ components = <<>>
  /\ remainingWord = <<>>
  /\ foundSuffixes = <<>>
  /\ tempWord = <<>>
  /\ hasContent = FALSE
  /\ rootPc = "idle"

FamIdle ==
  /\ famWord = <<>>
  /\ trimmedWord = <<>>
  /\ provider = <<>>
  /\ potentialForms = <<>>
  /\ inFlight = {}
  /\ results = <<>>
  /\ famForms = <<>>
  /\ famHasContent = FALSE
  /\ famPc = "idle"

LookIdle ==
  /\ lookWord = <<>>
  /\ lookTrimmedWord = <<>>
  /\ definitionsReply = Null
  /\ translationReply = Null
  /\ definitionsPromise = Pending
  /\ translationPromise = Pending
  /\ englishDefinitions = <<>>
  /\ isPhrase = FALSE
  /\ lookOutcome = Pending
  /\ lookLog = <<>>
  /\ lookPc = "idle"

UsageIdle ==
  /\ usageWord = <<>>
  /\ usageSynonyms = <<>>
  /\ usageAnalysis = Null
  /\ usagePc = "idle"

HistIdle ==
  /\ searchHistory = <<>>
  /\ storedHistory = Null
  /\ searchLog = <<>>
  /\ historyOps = 0

DispIdle ==
  /\ query = <<>>
  /\ searchPc = "idle"
  /\ familyCardPc = "idle"
  /\ currentResult = Null
  /\ loadingIndicator = "none"
  /\ resultsContainer = "none"
  /\ errorBanner = "none"
  /\ wordRootCard = "none"
  /\ wordFamilyCard = "none"
  /\ wordUsageCard = "none"

ReIdle ==
  /\ searches = <<>>
  /\ pendingLookups = {}
  /\ pendingFamilies = {}
  /\ runningSearch = 0
  /\ resultWord = <<>>
  /\ wordFamilyContent = Null
  /\ displayedSearch = 0

AudioIdle ==
  /\ audio = 0
  /\ isPlaying = FALSE
  /\ isLoading = FALSE
  /\ audios = <<>>
  /\ stateChange = Null

NavIdle ==
  /\ navStack = <<>>
  /\ shownSection = "welcome"
  /\ toffleView = "letters"
  /\ toffleCurrentLetter = Null
  /\ greView = "letters"
  /\ greCurrentLetter = Null
  /\ idiomView = "letters"
  /\ idiomCurrentLetter = Null
  /\ lastNav = [handler |-> "none", section |-> "none", stack |-> <<>>]

NoteIdle ==
  /\ notebook = <<>>
  /\ storedNotebook = Null
  /\ notebookOps = 0
  /\ lastNotebookOp = [handler |-> "none", saved |-> FALSE]

SideIdle == ReIdle /\ AudioIdle /\ NavIdle /\ NoteIdle

AppIdle == UsageIdle /\ HistIdle /\ DispIdle /\ SideIdle

-----------------------------------------------------------------------------
(* word-root-analyzer: the morpheme tables *)
\* The pattern column of the prefix table, in table order (row i is the
\* i-th entry; its glosses are identified by the row number).
prefixes ==
  <<
    <<"u","n">>, <<"d","i","s">>, <<"i","n">>, <<"i","m">>, <<"i","l">>, <<"i","r">>,
    <<"n","o","n">>, <<"m","i","s">>, <<"m","a","l">>, <<"a","n","t","i">>, <<"c","o","n","t","r","a">>, <<"c","o","u","n","t","e","r">>,
    <<"a","b">>, <<"a","d">>, <<"c","i","r","c","u","m">>, <<"c","o","m">>, <<"c","o","n">>, <<"c","o","l">>,
    <<"c","o","r">>, <<"c","o">>, <<"d","e">>, <<"d","i","a">>, <<"e","x">>, <<"e","x","t","r","a">>,
    <<"i","n","f","r","a">>, <<"i","n","t","e","r">>, <<"i","n","t","r","a">>, <<"i","n","t","r","o">>, <<"o","b">>, <<"p","a","r","a">>,
    <<"p","e","r">>, <<"p","e","r","i">>, <<"p","o","s","t">>, <<"p","r","e">>, <<"p","r","o">>, <<"r","e">>,
    <<"r","e","t","r","o">>, <<"s","e">>, <<"s","u","b">>, <<"s","u","c">>, <<"s","u","f">>, <<"s","u","p">>,
    <<"s","u","s">>, <<"s","u","p","e","r">>, <<"s","u","p","r","a">>, <<"s","u","r">>, <<"s","y","n">>, <<"s","y","m">>,
    <<"t","r","a","n","s">>, <<"u","l","t","r","a">>, <<"h","y","p","e","r">>, <<"h","y","p","o">>, <<"m","a","c","r","o">>, <<"m","e","g","a">>,
    <<"m","i","c","r","o">>, <<"m","i","n","i">>, <<"o","u","t">>, <<"o","v","e","r">>, <<"u","n","d","e","r">>, <<"u","n","i">>,
    <<"m","o","n","o">>, <<"b","i">>, <<"d","i">>, <<"t","r","i">>, <<"q","u","a","d">>, <<"q","u","a","r","t">>,
    <<"p","e","n","t">>, <<"q","u","i","n","t">>, <<"h","e","x">>, <<"h","e","p","t">>, <<"s","e","p","t">>, <<"o","c","t">>,
    <<"n","o","v">>, <<"d","e","c">>, <<"c","e","n","t">>, <<"k","i","l","o">>, <<"m","i","l","l","i">>, <<"s","e","m","i">>,
    <<"h","e","m","i">>, <<"d","e","m","i">>, <<"m","u","l","t","i">>, <<"p","o","l","y">>, <<"a","u","t","o">>, <<"b","e","n","e">>,
    <<"b","i","o">>, <<"c","h","r","o","n","o">>, <<"c","y","b","e","r">>, <<"e","c","o">>, <<"e","l","e","c","t","r","o">>, <<"g","e","o">>,
    <<"h","e","t","e","r","o">>, <<"h","o","m","o">>, <<"h","y","d","r","o">>, <<"n","e","o">>, <<"n","e","u","r","o">>, <<"p","a","n">>,
    <<"p","h","i","l">>, <<"p","h","i","l","o">>, <<"p","h","o","t","o">>, <<"p","s","e","u","d","o">>, <<"p","s","y","c","h","o">>, <<"s","o","c","i","o">>,
    <<"t","e","c","h","n","o">>, <<"t","e","l","e">>, <<"t","h","e","r","m","o">>, <<"v","i","c","e">>, <<"a","n","t","e">>, <<"f","o","r","e">>,
    <<"m","i","d">>, <<"e","u">>, <<"d","y","s">>
  >>

\* The pattern column of the root table, in table order.
roots ==
  <<
    <<"a","c","t">>, <<"a","g">>, <<"a","g","r">>, <<"a","l","i">>, <<"a","l","t","e","r">>, <<"a","m">>,
    <<"a","n","i","m">>, <<"a","n","n">>, <<"e","n","n">>, <<"a","n","t","h">>, <<"a","n","t","h","r","o","p">>, <<"a","p","t">>,
    <<"a","q","u">>, <<"a","r","c","h">>, <<"a","r","t">>, <<"a","s","t","e","r">>, <<"a","s","t","r">>, <<"a","u","d">>,
    <<"a","u","g">>, <<"b","a","r">>, <<"b","a","s">>, <<"b","e","l","l">>, <<"b","i","b","l">>, <<"b","i","o">>,
    <<"b","r","e","v">>, <<"c","a","d">>, <<"c","a","s">>, <<"c","i","d">>, <<"c","a","p">>, <<"c","a","p","i","t">>,
    <<"c","a","p","t">>, <<"c","e","p","t">>, <<"c","e","i","v">>, <<"c","i","p">>, <<"c","a","r","n">>, <<"c","e","d">>,
    <<"c","e","e","d">>, <<"c","e","s","s">>, <<"c","e","n","t","r">>, <<"c","e","r","t">>, <<"c","h","r","o","n">>, <<"c","i","d","e">>,
    <<"c","i","s">>, <<"c","i","t">>, <<"c","i","v">>, <<"c","l","a","i","m">>, <<"c","l","a","m">>, <<"c","l","a","r">>,
    <<"c","l","i","n">>, <<"c","l","o","s">>, <<"c","l","u","d">>, <<"c","l","u","s">>, <<"c","o","g","n">>, <<"c","o","r","d">>,
    <<"c","o","r","p">>, <<"c","o","s","m">>, <<"c","r","a","t">>, <<"c","r","e">>, <<"c","r","e","a","t">>, <<"c","r","e","d">>,
    <<"c","r","e","s","c">>, <<"c","r","i","t">>, <<"c","r","y","p","t">>, <<"c","u","l","t">>, <<"c","u","r">>, <<"c","u","r","e">>,
    <<"c","u","r","s">>, <<"c","u","r","r">>, <<"c","o","u","r","s">>, <<"c","y","c","l">>, <<"d","e","c">>, <<"d","e","m">>,
    <<"d","e","n","t">>, <<"d","e","r","m">>, <<"d","i","c">>, <<"d","i","c","t">>, <<"d","i","g","n">>, <<"d","o","c">>,
    <<"d","o","c","t">>, <<"d","o","m">>, <<"d","o","n">>, <<"d","o","n","a","t">>, <<"d","o","r","m">>, <<"d","o","x">>,
    <<"d","r","a","w">>, <<"d","u">>, <<"d","u","c">>, <<"d","u","c","t">>, <<"d","u","r">>, <<"d","y","n">>,
    <<"d","y","n","a","m">>, <<"e","q","u">>, <<"e","r","g">>, <<"e","r","r">>, <<"e","v">>, <<"f","a","b">>,
    <<"f","a","c">>, <<"f","a","c","t">>, <<"f","e","c","t">>, <<"f","i","c">>, <<"f","a","l","l">>, <<"f","a","l","s">>,
    <<"f","a","m">>, <<"f","e","r">>, <<"f","i","d">>, <<"f","i","g">>, <<"f","i","n">>, <<"f","i","r","m">>,
    <<"f","i","x">>, <<"f","l","a","m">>, <<"f","l","e","c","t">>, <<"f","l","e","x">>, <<"f","l","i","c","t">>, <<"f","l","o","r">>,
    <<"f","l","u">>, <<"f","l","u","x">>, <<"f","o","r","m">>, <<"f","o","r","t">>, <<"f","o","r","c">>, <<"f","r","a","g">>,
    <<"f","r","a","c","t">>, <<"f","u","g">>, <<"f","u","n","c","t">>, <<"f","u","n","d">>, <<"f","u","s">>, <<"g","a","m">>,
    <<"g","e","n">>, <<"g","e","r">>, <<"g","e","s","t">>, <<"g","n","o","s">>, <<"g","r","a","d">>, <<"g","r","e","s","s">>,
    <<"g","r","a","m">>, <<"g","r","a","p","h">>, <<"g","r","a","t">>, <<"g","r","a","v">>, <<"g","r","e","g">>, <<"g","y","n">>,
    <<"h","a","b">>, <<"h","a","b","i","t">>, <<"h","a","p">>, <<"h","e","l","i">>, <<"h","e","m">>, <<"h","e","r">>,
    <<"h","e","s">>, <<"h","i","b","i","t">>, <<"h","o","m">>, <<"h","o","r">>, <<"h","u","m">>, <<"h","u","m","a","n">>,
    <<"i","d","e","n","t">>, <<"i","g","n">>, <<"i","m","a","g">>, <<"i","n","i","t">>, <<"i","n","t","e","g","r">>, <<"i","t">>,
    <<"j","e","c","t">>, <<"j","o","i","n">>, <<"j","u","n","c","t">>, <<"j","u","d">>, <<"j","u","d","i","c">>, <<"j","u","r">>,
    <<"j","u","s">>, <<"j","u","s","t">>, <<"j","u","v","e","n">>, <<"l","a","b","o","r">>, <<"l","a","t">>, <<"l","a","t","e","r">>,
    <<"l","a","v">>, <<"l","e","c","t">>, <<"l","e","g">>, <<"l","e","v">>, <<"l","i","b","e","r">>, <<"l","i","b","r">>,
    <<"l","i","c">>, <<"l","i","g">>, <<"l","i","m">>, <<"l","i","n">>, <<"l","i","n","g","u">>, <<"l","i","t">>,
    <<"l","i","t","e","r">>, <<"l","o","c">>, <<"l","o","g">>, <<"l","o","q","u">>, <<"l","u","c">>, <<"l","u","d">>,
    <<"l","u","s">>, <<"l","u","m">>, <<"l","u","m","i","n">>, <<"m","a","g","n">>, <<"m","a","j">>, <<"m","a","n">>,
    <<"m","a","n","u">>, <<"m","a","n","d">>, <<"m","a","r">>, <<"m","a","t","e","r">>, <<"m","a","t","r">>, <<"m","e","d","i">>,
    <<"m","e","d">>, <<"m","e","m">>, <<"m","e","m","o","r">>, <<"m","e","n","t">>, <<"m","e","r","c">>, <<"m","e","r","g">>,
    <<"m","e","r","s">>, <<"m","e","t","e","r">>, <<"m","e","t","r">>, <<"m","i","g","r">>, <<"m","i","n">>, <<"m","i","r">>,
    <<"m","i","s">>, <<"m","i","s","s">>, <<"m","i","t">>, <<"m","o","b">>, <<"m","o","d">>, <<"m","o","n">>,
    <<"m","o","n","s","t","r">>, <<"m","o","r">>, <<"m","o","r","p","h">>, <<"m","o","r","t">>, <<"m","o","t">>, <<"m","o","v">>,
    <<"m","u","n">>, <<"m","u","t">>, <<"n","a","s","c">>, <<"n","a","t">>, <<"n","a","v">>, <<"n","e","c","t">>,
    <<"n","e","g">>, <<"n","e","u","r">>, <<"n","o","c">>, <<"n","o","x">>, <<"n","o","m">>, <<"n","o","m","i","n">>,
    <<"n","o","r","m">>, <<"n","o","t">>, <<"n","o","u","n">>, <<"n","o","u","n","c","e">>, <<"n","o","v">>, <<"n","u","m","e","r">>,
    <<"n","u","t","r">>, <<"o","c","t">>, <<"o","c","u","l">>, <<"o","p","e","r">>, <<"o","p","t">>, <<"o","r","a">>,
    <<"o","r","d">>, <<"o","r","g","a","n">>, <<"o","r","i">>, <<"o","r","n">>, <<"p","a","c">>, <<"p","a","r">>,
    <<"p","a","r","t">>, <<"p","a","s","s">>, <<"p","a","t","h">>, <<"p","a","t","r">>, <<"p","a","t","e","r">>, <<"p","e","d">>,
    <<"p","e","l">>, <<"p","u","l","s">>, <<"p","e","n">>, <<"p","e","n","d">>, <<"p","e","n","s">>, <<"p","e","t">>,
    <<"p","h","a","s">>, <<"p","h","e","n">>, <<"p","h","i","l">>, <<"p","h","o","b">>, <<"p","h","o","n">>, <<"p","h","o","r">>,
    <<"p","h","o","t","o">>, <<"p","h","y","s">>, <<"p","l","a","c">>, <<"p","l","a","n">>, <<"p","l","a","s">>, <<"p","l","e">>,
    <<"p","l","e","n">>, <<"p","l","e","x">>, <<"p","l","i","c">>, <<"p","l","y">>, <<"p","o","d">>, <<"p","o","l","i">>,
    <<"p","o","l","i","t">>, <<"p","o","n">>, <<"p","o","s">>, <<"p","o","s","i","t">>, <<"p","o","t">>, <<"p","o","t","e","n">>,
    <<"p","r","e","c">>, <<"p","r","e","s","s">>, <<"p","r","i","m">>, <<"p","r","i","n">>, <<"p","r","i","v">>, <<"p","r","o","b">>,
    <<"p","r","o","v">>, <<"p","r","o","t","o">>, <<"p","s","y","c","h">>, <<"p","u","n","c","t">>, <<"p","u","r">>, <<"p","u","t">>,
    <<"q","u","e","r">>, <<"q","u","e","s","t">>, <<"q","u","i","r">>, <<"q","u","i","e","t">>, <<"r","a","d","i">>, <<"r","a","t">>,
    <<"r","e","a","l">>, <<"r","e","c","t">>, <<"r","e","g">>, <<"r","o","g">>, <<"r","u","p","t">>, <<"s","a","c","r">>,
    <<"s","a","n","c","t">>, <<"s","a","n">>, <<"s","a","t">>, <<"s","c","i">>, <<"s","c","o","p">>, <<"s","c","r","i","b">>,
    <<"s","c","r","i","p","t">>, <<"s","e","c">>, <<"s","e","c","t">>, <<"s","e","c","u">>, <<"s","e","q","u">>, <<"s","e","d">>,
    <<"s","e","s","s">>, <<"s","i","d">>, <<"s","e","n">>, <<"s","e","n","s">>, <<"s","e","n","t">>, <<"s","e","r","t">>,
    <<"s","e","r","v">>, <<"s","i","g","n">>, <<"s","i","m","i","l">>, <<"s","i","m","u","l">>, <<"s","i","s","t">>, <<"s","o","c","i">>,
    <<"s","o","l">>, <<"s","o","l","v">>, <<"s","o","l","u","t">>, <<"s","o","m","n">>, <<"s","o","n">>, <<"s","o","p","h">>,
    <<"s","p","e","c">>, <<"s","p","e","c","t">>, <<"s","p","i","r">>, <<"s","p","o","n","d">>, <<"s","p","o","n","s">>, <<"s","t","a">>,
    <<"s","t","a","t">>, <<"s","t","r","a","i","n">>, <<"s","t","r","i","c","t">>, <<"s","t","r","u","c","t">>, <<"s","t","u","d">>, <<"s","u","m">>,
    <<"t","a","c">>, <<"t","a","c","t">>, <<"t","a","g">>, <<"t","a","n","g">>, <<"t","a","i","n">>, <<"t","e","n">>,
    <<"t","i","n">>, <<"t","e","c","h","n">>, <<"t","e","c","t">>, <<"t","e","l","e">>, <<"t","e","m","p","o","r">>, <<"t","e","n","d">>,
    <<"t","e","n","s">>, <<"t","e","n","t">>, <<"t","e","r","m">>, <<"t","e","r","m","i","n">>, <<"t","e","r","r">>, <<"t","e","s","t">>,
    <<"t","e","x","t">>, <<"t","h","e">>, <<"t","h","e","o">>, <<"t","h","e","r","m">>, <<"t","h","e","s">>, <<"t","o","m">>,
    <<"t","o","n">>, <<"t","o","r">>, <<"t","o","r","t">>, <<"t","o","x">>, <<"t","r","a","c","t">>, <<"t","r","i","b">>,
    <<"t","r","u","d">>, <<"t","r","u","s">>, <<"t","u","r","b">>, <<"t","y","p">>, <<"u","l","t","i","m">>, <<"u","m","b","r">>,
    <<"u","n">>, <<"u","n","d">>, <<"u","n","i">>, <<"u","r","b">>, <<"u","s">>, <<"u","t">>,
    <<"u","t","i","l">>, <<"v","a","c">>, <<"v","a","d">>, <<"v","a","l">>, <<"v","a","l","u">>, <<"v","a","r">>,
    <<"v","a","r","i">>, <<"v","e","n">>, <<"v","e","n","t">>, <<"v","e","r">>, <<"v","e","r","b">>, <<"v","e","r","g">>,
    <<"v","e","r","s">>, <<"v","e","r","t">>, <<"v","e","s","t">>, <<"v","i">>, <<"v","i","a">>, <<"v","i","d">>,
    <<"v","i","s">>, <<"v","i","e","w">>, <<"v","i","c","t">>, <<"v","i","n","c">>, <<"v","i","r">>, <<"v","i","t">>,
    <<"v","i","v">>, <<"v","o","c">>, <<"v","o","k">>, <<"v","o","l">>, <<"v","o","l","v">>, <<"v","o","r">>,
    <<"v","o","t">>, <<"z","o">>
  >>

\* The pattern column of the suffix table, in table order ("ly" occurs
\* twice, with different glosses).
suffixes ==
  <<
    <<"e","r">>, <<"o","r">>, <<"a","r">>, <<"i","s","t">>, <<"i","a","n">>, <<"a","n","t">>,
    <<"e","n","t">>, <<"e","e">>, <<"e","e","r">>, <<"e","s","s">>, <<"s","t","e","r">>, <<"t","i","o","n">>,
    <<"s","i","o","n">>, <<"a","t","i","o","n">>, <<"i","t","i","o","n">>, <<"m","e","n","t">>, <<"n","e","s","s">>, <<"i","t","y">>,
    <<"t","y">>, <<"a","n","c","e">>, <<"e","n","c","e">>, <<"a","n","c","y">>, <<"e","n","c","y">>, <<"d","o","m">>,
    <<"h","o","o","d">>, <<"s","h","i","p">>, <<"i","s","m">>, <<"u","r","e">>, <<"a","g","e">>, <<"e","r","y">>,
    <<"r","y">>, <<"c","y">>, <<"t","h">>, <<"a","b","l","e">>, <<"i","b","l","e">>, <<"a","l">>,
    <<"i","a","l">>, <<"i","c","a","l">>, <<"f","u","l">>, <<"l","e","s","s">>, <<"o","u","s">>, <<"i","o","u","s">>,
    <<"e","o","u","s">>, <<"i","v","e">>, <<"a","t","i","v","e">>, <<"i","t","i","v","e">>, <<"i","c">>, <<"t","i","c">>,
    <<"a","r","y">>, <<"o","r","y">>, <<"i","s","h">>, <<"l","i","k","e">>, <<"l","y">>, <<"y">>,
    <<"e","d">>, <<"e","n">>, <<"e","r","n">>, <<"e","s","e">>, <<"w","a","r","d">>, <<"w","a","r","d","s">>,
    <<"w","i","s","e">>, <<"i","z","e">>, <<"i","s","e">>, <<"f","y">>, <<"i","f","y">>, <<"a","t","e">>,
    <<"l","y">>, <<"i","n","g">>, <<"l","i","n","g">>, <<"l","e","t">>, <<"e","t","t","e">>, <<"o","i","d">>,
    <<"s","c","o","p","e">>, <<"g","r","a","p","h","y">>, <<"l","o","g","y">>, <<"n","o","m","y">>, <<"m","e","t","r","y">>, <<"p","h","o","b","i","a">>,
    <<"c","r","a","c","y">>, <<"c","r","a","t">>, <<"a","r","c","h">>, <<"a","r","c","h","y">>, <<"c","i","d","e">>, <<"p","a","t","h">>,
    <<"p","a","t","h","y">>
  >>

\* Array.prototype.sort((a, b) => b.pattern.length - a.pattern.length) on a
\* copy of the table: a stable sort by descending pattern length, given as
\* the sequence of table rows in sorted order.
MaxPatternLen(table) ==
  CHOOSE n \in {Len(table[i]) : i \in 1..Len(table)} :
    \A i \in 1..Len(table) : Len(table[i]) <= n

\* Mutant of RowsOfLen: rows of equal length in reverse table order
RowsOfLen_Reversed(table, n) ==
  LET HasLen(r) == Len(table[r]) = n IN
    SelectSeq([r \in 1..Len(table) |-> Len(table) + 1 - r], HasLen)

\* The rows whose pattern has length n, in table order
RowsOfLen(table, n) ==
  LET HasLen(r) == Len(table[r]) = n IN
    SelectSeq([r \in 1..Len(table) |-> r], HasLen)

\* Longer patterns first; rows of equal length keep their table order
RECURSIVE SortFrom(_, _)
SortFrom(table, n) ==
  IF n < 1 THEN <<>> ELSE RowsOfLen(table, n) \o SortFrom(table, n - 1)

SortByLengthDesc(table) == SortFrom(table, MaxPatternLen(table))

sortedPrefixes == SortByLengthDesc(prefixes)
sortedRoots == SortByLengthDesc(roots)
sortedSuffixes == SortByLengthDesc(suffixes)

-----------------------------------------------------------------------------
(* word-root-analyzer: analyzeWordRoot *)

\* ComponentType
PREFIX == "prefix"
ROOT == "root"
SUFFIX == "suffix"

\* The caps of the two extraction loops
MaxPrefixes == 2
MaxSuffixes == 2

\* A component: the pattern, its type, and the table row its meaning and
\* chineseMeaning are copied from.
Component(table, row, type) == [part |-> table[row], type |-> type, row |-> row]

\* components.filter(c => c.type === ComponentType.PREFIX).length
PrefixCount(comps) == Cardinality({i \in 1..Len(comps) : comps[i].type = PREFIX})

\* Mutant of PrefixMatches: two characters left are enough
PrefixMatches_LeavesTwo(window, pattern) ==
  StartsWith(window, pattern) /\ Len(window) > Len(pattern) + 1

\* The condition of the prefix loop's inner if
PrefixMatches(window, pattern) ==
  StartsWith(window, pattern) /\ Len(window) > Len(pattern) + 2

\* Mutant of SuffixMatches: one character left is enough
SuffixMatches_LeavesOne(window, pattern) ==
  EndsWith(window, pattern) /\ Len(window) > Len(pattern)

\* The condition of the suffix loop's inner if
SuffixMatches(window, pattern) ==
  EndsWith(window, pattern) /\ Len(window) > Len(pattern) + 1

\* The condition of the root loops' if
RootMatches(window, pattern) == Includes(window, pattern)

\* for (const e of sorted) { if (cond) { ...; break; } }: of the positions
\* in the sorted table whose entry matches, the first; 0 when none matches.
FirstHit(hits) ==
  IF hits = {} THEN 0 ELSE CHOOSE k \in hits : \A j \in hits : k <= j

FirstPrefix(window) ==
  FirstHit({k \in 1..Len(sortedPrefixes) :
              PrefixMatches(window, prefixes[sortedPrefixes[k]])})

FirstSuffix(window) ==
  FirstHit({k \in 1..Len(sortedSuffixes) :
              SuffixMatches(window, suffixes[sortedSuffixes[k]])})

FirstRoot(window) ==
  FirstHit({k \in 1..Len(sortedRoots) :
              RootMatches(window, roots[sortedRoots[k]])})

\* Mutant of PrefixLoopOpen: the cap is off by one
PrefixLoopOpen_OffByOne(comps) == PrefixCount(comps) <= MaxPrefixes

\* The while condition of the prefix loop, foundPrefix aside
PrefixLoopOpen(comps) == PrefixCount(comps) < MaxPrefixes

\* The while condition of the suffix loop, foundSuffix aside
SuffixLoopOpen(found) == Len(found) < MaxSuffixes

\* Mutant of Unshift: push instead of unshift
Unshift_Push(found, c) == Append(found, c)

\* foundSuffixes.unshift(c)
Unshift(found, c) == <<c>> \o found

\* Mutant of PushAll: the suffixes are put in front
PushAll_InFront(comps, found) == found \o comps

\* components.push(...foundSuffixes)
PushAll(comps, found) == comps \o found

\* Mutant of HasContent: the origin is ignored
HasContent_NoOrigin(comps, org) == Len(comps) > 0

\* hasContent: components.length > 0 || origin !== null
HasContent(comps, org) == Len(comps) > 0 \/ org # Null

\* One iteration of the prefix loop that finds a prefix
ExtractPrefix ==
  /\ rootPc = "prefixes"
  /\ PrefixLoopOpen(components)
  /\ FirstPrefix(remainingWord) # 0
  /\ LET row == sortedPrefixes[FirstPrefix(remainingWord)] IN
       /\ components' = Append(components, Component(prefixes, row, PREFIX))
       /\ remainingWord' = SliceFrom(remainingWord, Len(prefixes[row]))
  /\ UNCHANGED <<rootWord, origin, lowercased, foundSuffixes, tempWord,
                 hasContent, rootPc>>
  /\ UNCHANGED <<famVars, lookVars, appVars>>

\* The prefix loop ends (two prefixes found, or an iteration found none);
\* foundSuffixes = [], tempWord = remainingWord
EndPrefixes ==
  /\ rootPc = "prefixes"
  /\ ~PrefixLoopOpen(components) \/ FirstPrefix(remainingWord) = 0
  /\ foundSuffixes' = <<>>
  /\ tempWord' = remainingWord
  /\ rootPc' = "suffixes"
  /\ UNCHANGED <<rootWord, origin, lowercased, components, remainingWord,
                 hasContent>>
  /\ UNCHANGED <<famVars, lookVars, appVars>>

\* One iteration of the suffix loop that finds a suffix
ExtractSuffix ==
  /\ rootPc = "suffixes"
  /\ SuffixLoopOpen(foundSuffixes)
  /\ FirstSuffix(tempWord) # 0
  /\ LET row == sortedSuffixes[FirstSuffix(tempWord)] IN
       /\ foundSuffixes' = Unshift(foundSuffixes, Component(suffixes, row, SUFFIX))
       /\ tempWord' = DropLast(tempWord, Len(suffixes[row]))
  /\ UNCHANGED <<rootWord, origin, lowercased, components, remainingWord,
                 hasContent, rootPc>>
  /\ UNCHANGED <<famVars, lookVars, appVars>>

\* The suffix loop ends; remainingWord = tempWord
EndSuffixes ==
  /\ rootPc = "suffixes"
  /\ ~SuffixLoopOpen(foundSuffixes) \/ FirstSuffix(tempWord) = 0
  /\ remainingWord' = tempWord
  /\ rootPc' = "root"
  /\ UNCHANGED <<rootWord, origin, lowercased, components, foundSuffixes,
                 tempWord, hasContent>>
  /\ UNCHANGED <<famVars, lookVars, appVars>>

\* The root search in the remaining word, and, when it finds none, in the
\* whole lowercased word
RootRow(remaining, whole) ==
  IF FirstRoot(remaining) # 0 THEN sortedRoots[FirstRoot(remaining)]
  ELSE IF FirstRoot(whole) # 0 THEN sortedRoots[FirstRoot(whole)]
  ELSE 0

FindRoot ==
  /\ rootPc = "root"
  /\ LET row == RootRow(remainingWord, lowercased) IN
       components' = IF row # 0 THEN Append(components, Component(roots, row, ROOT))
                     ELSE components
  /\ rootPc' = "assemble"
  /\ UNCHANGED <<rootWord, origin, lowercased, remainingWord, foundSuffixes,
                 tempWord, hasContent>>
  /\ UNCHANGED <<famVars, lookVars, appVars>>

\* components.push(...foundSuffixes) and the returned object
ReturnAnalysis ==
  /\ rootPc = "assemble"
  /\ components' = PushAll(components, foundSuffixes)
  /\ hasContent' = HasContent(components', origin)
  /\ rootPc' = "done"
  /\ UNCHANGED <<rootWord, origin, lowercased, remainingWord, foundSuffixes,
                 tempWord>>
  /\ UNCHANGED <<famVars, lookVars, appVars>>

-----------------------------------------------------------------------------
(* analyzeWordRoot: the inputs explored *)

\* Words p + r + s are built from the first rows of each table
MaxPrefixRow == 5
MaxRootRow == 5
MaxSuffixRow == 5
\* All words over RootAlphabet up to this length are inputs too
MaxRootWordLen == 3

RootAlphabet == {"u", "n", "e", "d", "y"}

RECURSIVE WordsUpTo(_, _)
WordsUpTo(alphabet, n) ==
  IF n = 0 THEN {<<>>}
  ELSE LET shorter == WordsUpTo(alphabet, n - 1) IN
         shorter \cup {Append(w, c) : w \in shorter, c \in alphabet}

ComposedWords ==
  {prefixes[i] \o roots[j] \o suffixes[k] :
     i \in 1..Min(MaxPrefixRow, Len(prefixes)),
     j \in 1..Min(MaxRootRow, Len(roots)),
     k \in 1..Min(MaxSuffixRow, Len(suffixes))}

SampleWords ==
  { <<"u","n","h","a","p","p","i","n","e","s","s">>,
    <<"U","n","h","a","p","p","i","n","e","s","s">>,
    <<"u","n","b","e","l","i","e","v","a","b","l","e">>,
    <<"c","a","t">>, <<"x","y","z">>, <<"b","y">>, <<"u","n","i","t">>,
    <<"u","n","a","c","t","i","c">>,
    <<"c","o","n","t","r","a","c","t">>, <<"c","i","t","y">>,
    <<"u","n","i","t","y">>, <<"v","i","v","i","d">>,
    <<"m","a","n","u","f","a","c","t","u","r","e">>,
    <<"c","a","r","e","l","e","s","s","n","e","s","s","l","y">>,
    <<"u","n","d","i","s","i","n","t","e","r","a","c","t">>,
    <<"u","n","d","i","s","i","n","t","e","r","c","a","r","e","l","e","s","s",
      "n","e","s","s","l","y">> }

RootInputs == ComposedWords \cup SampleWords \cup WordsUpTo(RootAlphabet, MaxRootWordLen)

Origins == {Null, Str(<<"L","a","t","i","n">>), Str(<<>>)}

\* analyzeWordRoot is entered: lowercased, components = [], remainingWord
RootInit ==
  /\ rootWord \in RootInputs
  /\ origin \in Origins
  /\ lowercased = ToLowerCase(rootWord)
  /\ components = <<>>
  /\ remainingWord = ToLowerCase(rootWord)
  /\ foundSuffixes = <<>>
  /\ tempWord = <<>>
  /\ hasContent = FALSE
  /\ rootPc = "prefixes"
  /\ FamIdle
  /\ LookIdle
  /\ AppIdle

RootNext ==
  \/ ExtractPrefix
  \/ EndPrefixes
  \/ ExtractSuffix
  \/ EndSuffixes
  \/ FindRoot
  \/ ReturnAnalysis

SpecRoot == RootInit /\ [][RootNext]_vars

-----------------------------------------------------------------------------
(* analyzeWordRoot: properties *)

TypeCount(comps, type) == Cardinality({i \in 1..Len(comps) : comps[i].type = type})

\* The parts of the components of one type, concatenated in list order
RECURSIVE PartsOfType(_, _)
PartsOfType(comps, type) ==
  IF comps = <<>> THEN <<>>
  ELSE (IF Head(comps).type = type THEN Head(comps).part ELSE <<>>)
         \o PartsOfType(Tail(comps), type)

\* C1: at every point of analyzeWordRoot, and so in every result, there are
\* at most 2 PREFIX components and at most 2 SUFFIX components, whatever
\* the length of the word.
C1_AtMostTwoPrefixesAndSuffixes ==
  /\ TypeCount(components, PREFIX) <= 2
  /\ TypeCount(components, SUFFIX) <= 2
  /\ Len(foundSuffixes) <= 2

\* C1 witness: a result with 2 prefixes and 2 suffixes for a word in which
\* a third prefix and a third suffix could still have been stripped.
C1_Witness ==
  /\ rootPc = "done"
  /\ TypeCount(components, PREFIX) = 2
  /\ TypeCount(components, SUFFIX) = 2
  /\ \E i \in 1..Len(prefixes) :
       PrefixMatches(SliceFrom(lowercased, Len(PartsOfType(components, PREFIX))),
                     prefixes[i])
  /\ \E k \in 1..Len(suffixes) :
       SuffixMatches(DropLast(SliceFrom(lowercased, Len(PartsOfType(components, PREFIX))),
                              Len(PartsOfType(components, SUFFIX))),
                     suffixes[k])

\* C2: in every result the components are ordered PREFIX*, at most one
\* ROOT, SUFFIX*; the prefixes, in list order, spell the front of the
\* lowercased word, the suffixes, in list order, spell its end (the suffix
\* stripped last comes first), and the window left between them is what
\* remains after stripping.
C2_ComponentsInWordOrder ==
  rootPc = "done" =>
    /\ \A i, j \in 1..Len(components) :
         i < j =>
           /\ components[j].type = PREFIX => components[i].type = PREFIX
           /\ components[j].type = ROOT => components[i].type = PREFIX
    /\ TypeCount(components, ROOT) <= 1
    /\ lowercased = PartsOfType(components, PREFIX) \o remainingWord
                      \o PartsOfType(components, SUFFIX)

\* C2 witness: a result with two prefixes, a root and two different suffixes
C2_Witness ==
  /\ rootPc = "done"
  /\ Len(components) = 5
  /\ components[1].type = PREFIX /\ components[2].type = PREFIX
  /\ components[3].type = ROOT
  /\ components[4].type = SUFFIX /\ components[5].type = SUFFIX
  /\ components[4].part # components[5].part

\* No prefix pattern starts the word, no suffix pattern ends it and no root
\* pattern occurs in it
NoMorpheme(w) ==
  /\ \A i \in 1..Len(prefixes) : ~StartsWith(w, prefixes[i])
  /\ \A i \in 1..Len(suffixes) : ~EndsWith(w, suffixes[i])
  /\ \A i \in 1..Len(roots) : ~Includes(w, roots[i])

\* C3: the returned hasContent is true exactly when the component list is
\* non-empty or origin is not null; a word in which no morpheme matches,
\* with origin null, yields no components and hasContent = false.
C3_HasContentIffComponentsOrOrigin ==
  rootPc = "done" =>
    /\ hasContent <=> (components # <<>> \/ origin # Null)
    /\ (NoMorpheme(lowercased) /\ origin = Null) =>
         (components = <<>> /\ ~hasContent)

\* C3 witness: a non-empty word without any morpheme, origin null
C3_Witness ==
  /\ rootPc = "done"
  /\ Len(rootWord) >= 3
  /\ NoMorpheme(lowercased)
  /\ origin = Null
  /\ components = <<>>
  /\ ~hasContent

\* The decompositions of w as prefix pattern + root pattern + suffix pattern:
\* the pairs of a prefix row and a suffix row with a root pattern between
Decompositions(w) ==
  {d \in {i \in 1..Len(prefixes) : StartsWith(w, prefixes[i])}
           \X {k \in 1..Len(suffixes) : EndsWith(w, suffixes[k])} :
     /\ Len(prefixes[d[1]]) + Len(suffixes[d[2]]) < Len(w)
     /\ SubSeq(w, Len(prefixes[d[1]]) + 1, Len(w) - Len(suffixes[d[2]]))
          \in Range(roots)}

Middle(w, d) == SubSeq(w, Len(prefixes[d[1]]) + 1, Len(w) - Len(suffixes[d[2]]))

\* The result is exactly PREFIX p, one ROOT, SUFFIX s
MatchesDecomposition(comps, p, s) ==
  /\ Len(comps) = 3
  /\ comps[1].type = PREFIX /\ comps[1].part = p
  /\ comps[2].type = ROOT
  /\ comps[3].type = SUFFIX /\ comps[3].part = s

\* C4 as stated: for every word p + r + s the result is PREFIX p, one ROOT,
\* SUFFIX s.
C4_Original ==
  rootPc = "done" =>
    \A d \in Decompositions(rootWord) :
      MatchesDecomposition(components, prefixes[d[1]], suffixes[d[2]])

\* Longest-match stripping of p + r + s takes p and s and nothing more: p is
\* the longest prefix pattern that can be stripped from the word, none can
\* be stripped from r + s, s is the longest suffix pattern that can be
\* stripped from r + s, and none can be stripped from r.
StripsExactly(p, r, s) ==
  /\ \A i \in 1..Len(prefixes) :
       /\ PrefixMatches(p \o r \o s, prefixes[i]) => Len(prefixes[i]) <= Len(p)
       /\ ~PrefixMatches(r \o s, prefixes[i])
  /\ \A k \in 1..Len(suffixes) :
       /\ SuffixMatches(r \o s, suffixes[k]) => Len(suffixes[k]) <= Len(s)
       /\ ~SuffixMatches(r, suffixes[k])

\* C4 (amended): for every word p + r + s from which longest-match stripping
\* takes exactly p and exactly s, the result is PREFIX p, ROOT r, SUFFIX s in
\* this order and nothing else; and "unhappiness" with origin null yields
\* PREFIX "un", one ROOT, SUFFIX "ness".
C4_GreedyDecomposition ==
  rootPc = "done" =>
    /\ \A d \in Decompositions(rootWord) :
         StripsExactly(prefixes[d[1]], Middle(rootWord, d), suffixes[d[2]]) =>
           /\ MatchesDecomposition(components, prefixes[d[1]], suffixes[d[2]])
           /\ components[2].part = Middle(rootWord, d)
    /\ (rootWord = <<"u","n","h","a","p","p","i","n","e","s","s">> /\ origin = Null) =>
         MatchesDecomposition(components, <<"u","n">>, <<"n","e","s","s">>)

\* C4 witness: a word p + r + s that is stripped to exactly p and s
C4_Witness ==
  /\ rootPc = "done"
  /\ \E d \in Decompositions(rootWord) :
       /\ StripsExactly(prefixes[d[1]], Middle(rootWord, d), suffixes[d[2]])
       /\ MatchesDecomposition(components, prefixes[d[1]], suffixes[d[2]])
-----------------------------------------------------------------------------
(* dictionary-service: generatePotentialForms *)

Vowels == {"a", "e", "i", "o", "u"}

\* String.prototype.trim (spaces)
RECURSIVE TrimStart(_)
TrimStart(s) == IF s # <<>> /\ Head(s) = " " THEN TrimStart(Tail(s)) ELSE s

RECURSIVE TrimEnd(_)
TrimEnd(s) ==
  IF s # <<>> /\ s[Len(s)] = " " THEN TrimEnd(SubSeq(s, 1, Len(s) - 1)) ELSE s

Trim(s) == TrimEnd(TrimStart(s))

\* s.slice(0, n) for 0 <= n
Take(s, n) == SubSeq(s, 1, Min(n, Len(s)))

\* The cap on the number of forms to verify
MaxPotentialForms == 20

\* Mutant of AddForm: a form already in the list is pushed again
AddForm_KeepsDuplicates(forms, w, form) ==
  IF form # <<>> /\ form # w /\ Len(form) > 2
    THEN Append(forms, form)
    ELSE forms

\* addForm: push the form unless it is empty, the word itself, shorter
\* than 3 characters or already there
AddForm(forms, w, form) ==
  IF form # <<>> /\ form # w /\ Len(form) > 2 /\ form \notin Range(forms)
    THEN Append(forms, form)
    ELSE forms

RECURSIVE AddForms(_, _, _)
AddForms(forms, w, attempts) ==
  IF attempts = <<>> THEN forms
  ELSE AddForms(AddForm(forms, w, Head(attempts)), w, Tail(attempts))

\* w.match(/[^aeiou]y$/)
EndsWithConsonantY(w) ==
  Len(w) >= 2 /\ w[Len(w)] = "y" /\ w[Len(w) - 1] \notin Vowels

\* The forms handed to addForm, in the order of the calls
FormAttempts(w) ==
  LET endsWithE == EndsWith(w, <<"e">>)
      base == IF endsWithE THEN DropLast(w, 1) ELSE w
      yBase == DropLast(w, 1)
      nounBase == DropLast(w, 4)
      adjBase == DropLast(w, 3)
      advBase == DropLast(w, 2)
      nessBase == DropLast(w, 4)
  IN  \* verb forms
      (IF endsWithE
         THEN << base \o <<"i","n","g">>, base \o <<"e","d">>, w \o <<"d">>, base \o <<"i","o","n">>,
                 base \o <<"a","t","i","o","n">>, base \o <<"i","v","e">>, base \o <<"o","r">>, base \o <<"e","r">> >>
         ELSE << w \o <<"i","n","g">>, w \o <<"e","d">>, w \o <<"e","r">>, w \o <<"i","o","n">>, w \o <<"a","t","i","o","n">> >>)
      \* adjective forms
      \o (IF endsWithE THEN << base \o <<"i","v","e">>, base \o <<"i","v","e","l","y">> >> ELSE <<>>)
      \o << w \o <<"i","v","e">>, w \o <<"i","v","e","l","y">>, w \o <<"l","y">>, w \o <<"n","e","s","s">> >>
      \* comparative and superlative
      \o (IF endsWithE THEN << w \o <<"r">>, w \o <<"s","t">> >>
                       ELSE << w \o <<"e","r">>, w \o <<"e","s","t">> >>)
      \* -y endings
      \o (IF EndsWithConsonantY(w)
            THEN << yBase \o <<"i","l","y">>, yBase \o <<"i","n","e","s","s">>, yBase \o <<"i","e","r">>,
                    yBase \o <<"i","e","s","t">>, yBase \o <<"i","e","d">>, yBase \o <<"i","e","s">> >>
            ELSE <<>>)
      \* noun forms
      \o << w \o <<"m","e","n","t">>, w \o <<"n","e","s","s">>, w \o <<"i","t","y">> >>
      \o (IF endsWithE THEN << base \o <<"i","t","y">> >> ELSE <<>>)
      \* base forms of a derived word
      \o (IF EndsWith(w, <<"t","i","o","n">>) \/ EndsWith(w, <<"s","i","o","n">>)
            THEN << nounBase \o <<"e">>, nounBase, nounBase \o <<"i","v","e">>,
                    nounBase \o <<"i","v","e","l","y">> >>
            ELSE <<>>)
      \o (IF EndsWith(w, <<"i","v","e">>)
            THEN << adjBase \o <<"e">>, adjBase \o <<"i","o","n">>, w \o <<"l","y">>,
                    DropLast(w, 1) \o <<"i","t","y">> >>
            ELSE <<>>)
      \o (IF EndsWith(w, <<"l","y">>) THEN << advBase, advBase \o <<"e">> >> ELSE <<>>)
      \o (IF EndsWith(w, <<"n","e","s","s">>) THEN << nessBase, nessBase \o <<"l","y">> >> ELSE <<>>)

\* generatePotentialForms(word)
GeneratePotentialForms(word) ==
  LET w == ToLowerCase(word) IN
    Take(AddForms(<<>>, w, FormAttempts(w)), MaxPotentialForms)

-----------------------------------------------------------------------------
(* dictionary-service: getWordFormInfo *)

NOUN == <<"n","o","u","n">>
VERB == <<"v","e","r","b">>
ADJECTIVE == <<"a","d","j","e","c","t","i","v","e">>
ADVERB == <<"a","d","v","e","r","b">>

FormInfo(pos, label, icon) == [pos |-> pos, label |-> label, icon |-> icon]

\* getWordFormInfo(word, baseWord); Null for "unknown"
GetWordFormInfo(word, baseWord) ==
  LET w == ToLowerCase(word)
      base == ToLowerCase(baseWord)
      E(s) == EndsWith(w, s)
  IN
      IF E(<<"i","n","g">>)
        THEN FormInfo(VERB, "Present Participle", "-ing")
      ELSE IF E(<<"e","d">>) /\ (StartsWith(w, Take(base, 3)) \/ EndsWith(base, <<"e">>))
        THEN FormInfo(VERB, "Past Tense", "Past")
      ELSE IF w = base \o <<"d">> \/ w = DropLast(base, 1) \o <<"e","d">>
        THEN FormInfo(VERB, "Past Tense", "Past")
      ELSE IF E(<<"e","s","t">>)
        THEN FormInfo(ADJECTIVE, "Superlative", "-est")
      ELSE IF E(<<"e","r">>) /\ Len(w) < Len(base) + 4 /\ ~E(<<"i","e","r">>)
              /\ (w = base \o <<"r">> \/ w = base \o <<"e","r">>
                    \/ w = DropLast(base, 1) \o <<"i","e","r">>)
        THEN FormInfo(ADJECTIVE, "Comparative", "-er")
      ELSE IF E(<<"i","e","r">>) /\ EndsWith(base, <<"y">>)
        THEN FormInfo(ADJECTIVE, "Comparative", "-er")
      ELSE IF E(<<"i","e","s","t">>) /\ EndsWith(base, <<"y">>)
        THEN FormInfo(ADJECTIVE, "Superlative", "-est")
      ELSE IF E(<<"l","y">>)
        THEN FormInfo(ADVERB, "Adverb", "Adv")
      ELSE IF E(<<"i","l","y">>)
        THEN FormInfo(ADVERB, "Adverb", "Adv")
      ELSE IF E(<<"a","l","l","y">>)
        THEN FormInfo(ADVERB, "Adverb", "Adv")
      ELSE IF E(<<"i","v","e">>) \/ E(<<"a","t","i","v","e">>)
        THEN FormInfo(ADJECTIVE, "Adjective", "Adj")
      ELSE IF E(<<"o","u","s">>) \/ E(<<"i","o","u","s">>) \/ E(<<"e","o","u","s">>)
        THEN FormInfo(ADJECTIVE, "Adjective", "Adj")
      ELSE IF E(<<"a","b","l","e">>) \/ E(<<"i","b","l","e">>)
        THEN FormInfo(ADJECTIVE, "Adjective", "Adj")
      ELSE IF E(<<"f","u","l">>) \/ E(<<"l","e","s","s">>)
        THEN FormInfo(ADJECTIVE, "Adjective", "Adj")
      ELSE IF E(<<"a","l">>) /\ Len(w) > 4
        THEN FormInfo(ADJECTIVE, "Adjective", "Adj")
      ELSE IF E(<<"i","c">>) \/ E(<<"i","c","a","l">>)
        THEN FormInfo(ADJECTIVE, "Adjective", "Adj")
      ELSE IF E(<<"t","i","o","n">>) \/ E(<<"s","i","o","n">>)
        THEN FormInfo(NOUN, "Noun", "N")
      ELSE IF E(<<"m","e","n","t">>)
        THEN FormInfo(NOUN, "Noun", "N")
      ELSE IF E(<<"n","e","s","s">>)
        THEN FormInfo(NOUN, "Noun", "N")
      ELSE IF E(<<"i","t","y">>)
        THEN FormInfo(NOUN, "Noun", "N")
      ELSE IF E(<<"a","n","c","e">>) \/ E(<<"e","n","c","e">>)
        THEN FormInfo(NOUN, "Noun", "N")
      ELSE IF E(<<"e","r">>) \/ E(<<"o","r">>)
        THEN FormInfo(NOUN, "Noun (person)", "N")
      ELSE IF E(<<"i","s","t">>) \/ E(<<"i","s","m">>)
        THEN FormInfo(NOUN, "Noun", "N")
      ELSE IF E(<<"i","z","e">>) \/ E(<<"i","s","e">>)
        THEN FormInfo(VERB, "Verb", "V")
      ELSE IF E(<<"i","f","y">>)
        THEN FormInfo(VERB, "Verb", "V")
      ELSE IF E(<<"a","t","e">>) /\ Len(w) > 5
        THEN FormInfo(VERB, "Verb", "V")
      ELSE Null

-----------------------------------------------------------------------------
(* dictionary-service: verifyWordForm *)

Undefined == [type |-> "undefined"]

\* What the dictionary API does with one request:
\*   "network"  fetch rejects
\*   "notok"    a response with ok = false (404, 5xx)
\*   "badjson"  response.json() rejects
\*   "ok"       a JSON array of entries; an entry has a word (a string, or
\*              Undefined when the field is missing) and the partOfSpeech
\*              of each of its meanings (a string or Undefined)
Response(kind, data) == [kind |-> kind, data |-> data]
Entry(word, meanings) == [word |-> word, meanings |-> meanings]

\* orderMap[pos] || 5
OrderOf(pos) ==
  IF pos = NOUN THEN 1
  ELSE IF pos = VERB THEN 2
  ELSE IF pos = ADJECTIVE THEN 3
  ELSE IF pos = ADVERB THEN 4
  ELSE 5

\* genericLabels[pos]; Undefined when pos is no key
GenericLabel(pos) ==
  IF pos = NOUN THEN [label |-> "Noun", icon |-> "N"]
  ELSE IF pos = VERB THEN [label |-> "Verb", icon |-> "V"]
  ELSE IF pos = ADJECTIVE THEN [label |-> "Adjective", icon |-> "Adj"]
  ELSE IF pos = ADVERB THEN [label |-> "Adverb", icon |-> "Adv"]
  ELSE Undefined

\* meanings.map(m => m.partOfSpeech?.toLowerCase()).filter(Boolean)
RECURSIVE ApiPOSList(_)
ApiPOSList(meanings) ==
  IF meanings = <<>> THEN <<>>
  ELSE (IF Head(meanings) # Undefined /\ Head(meanings).chars # <<>>
          THEN <<ToLowerCase(Head(meanings).chars)>>
          ELSE <<>>)
         \o ApiPOSList(Tail(meanings))

VerifiedForm(word, label, icon, order) ==
  [word |-> word, partOfSpeech |-> label, icon |-> icon, order |-> order]

\* verifyWordForm(word, baseWord), given the API's response to its request:
\* the verified form, or Null
VerifyWordForm(word, baseWord, response) ==
  IF response.kind # "ok" THEN Null                  \* !response.ok, or catch
  ELSE IF response.data = <<>> THEN Null             \* !data || !data[0]
  ELSE IF response.data[1].meanings = <<>> THEN Null \* meanings.length === 0
  ELSE
    LET entry == response.data[1]
        formInfo == GetWordFormInfo(word, baseWord)
        apiPOSList == ApiPOSList(entry.meanings)
    IN  IF formInfo # Null
          THEN VerifiedForm(entry.word, formInfo.label, formInfo.icon,
                            OrderOf(formInfo.pos))
        \* pos = apiPOSList[0] is undefined, or no key of genericLabels
        ELSE IF apiPOSList = <<>> THEN Null
        ELSE IF GenericLabel(apiPOSList[1]) = Undefined THEN Null
        ELSE VerifiedForm(entry.word, GenericLabel(apiPOSList[1]).label,
                          GenericLabel(apiPOSList[1]).icon,
                          OrderOf(apiPOSList[1]))

-----------------------------------------------------------------------------
(* dictionary-service: fetchWordFamily *)

\* The threshold below which a second form of a part of speech is kept
MinFill == 4
\* The cap on the returned forms
MaxForms == 6

\* Mutant of WordKey: words are compared as they are spelled
WordKey_CaseSensitive(word) == word

\* result.word.toLowerCase(), the key of seenWords
WordKey(word) == ToLowerCase(word)

\* Mutant of KeepsForm: a represented label is admitted once four forms are kept
KeepsForm_AfterFill(posSeen, count) == ~posSeen \/ count >= MinFill

\* The condition under which a verified form is kept
KeepsForm(posSeen, count) == ~posSeen \/ count < MinFill

\* The filter loop over the results from position k on. acc holds
\* seenWords, seenPOS and forms; threw is set when result.word.toLowerCase()
\* throws (the word field is missing).
RECURSIVE FilterFrom(_, _, _)
FilterFrom(values, k, acc) ==
  IF k > Len(values) THEN acc
  ELSE LET result == values[k] IN
    IF result = Null THEN FilterFrom(values, k + 1, acc)
    ELSE IF result.word = Undefined THEN [acc EXCEPT !.threw = TRUE]
    ELSE IF WordKey(result.word.chars) \in acc.seenWords
      THEN FilterFrom(values, k + 1, acc)
    ELSE IF KeepsForm(result.partOfSpeech \in acc.seenPOS, Len(acc.forms))
      THEN FilterFrom(values, k + 1,
             [seenWords |-> acc.seenWords \cup {WordKey(result.word.chars)},
              seenPOS |-> acc.seenPOS \cup {result.partOfSpeech},
              forms |-> Append(acc.forms, result),
              threw |-> FALSE])
    ELSE FilterFrom(values, k + 1, acc)

FilterResults(values, trimmed) ==
  FilterFrom(values, 1,
             [seenWords |-> {trimmed}, seenPOS |-> {}, forms |-> <<>>,
              threw |-> FALSE])

\* Mutant of SortByOrder: the forms are left in the order of the filter
SortByOrder_Unsorted(forms) == forms

\* forms.sort((a, b) => a.order - b.order): a stable sort by order
SortByOrder(forms) ==
  LET Has(n) == SelectSeq(forms, LAMBDA f : f.order = n) IN
    Has(1) \o Has(2) \o Has(3) \o Has(4) \o Has(5)

\* Mutant of LimitForms: the sorted forms are returned whole
LimitForms_NoSlice(forms) == forms

\* forms.slice(0, 6)
LimitForms(forms) == Take(forms, MaxForms)

\* Mutant of FamilyHasContent: the family always announces content
FamilyHasContent_Always(forms) == TRUE

\* limitedForms.length > 0
FamilyHasContent(forms) == Len(forms) > 0

\* word.trim().toLowerCase()
TrimmedWord(word) == ToLowerCase(Trim(word))

\* The value fetchWordFamily resolves to, given the settled results
FamilyOf(values, trimmed) ==
  LET filtered == FilterResults(values, trimmed) IN
    IF filtered.threw THEN <<>>
    ELSE LimitForms(SortByOrder(filtered.forms))

Unsettled == [type |-> "unsettled"]

\* Mutant of StoreResult: values are collected in the order of completion
StoreResult_CompletionOrder(values, i, value) ==
  LET free == {k \in 1..Len(values) : values[k] = Unsettled}
      slot == CHOOSE k \in free : \A j \in free : k <= j
  IN  [values EXCEPT ![slot] = value]

\* Promise.all: the value of call i is stored at index i
StoreResult(values, i, value) == [values EXCEPT ![i] = value]


-----------------------------------------------------------------------------
(* fetchWordFamily: the dictionary API and the inputs explored *)

ToUpperChar(c) ==
  IF \E i \in 1..Len(LowerChars) : LowerChars[i] = c
    THEN UpperChars[CHOOSE i \in 1..Len(LowerChars) : LowerChars[i] = c]
    ELSE c

Capitalize(s) == IF s = <<>> THEN s ELSE <<ToUpperChar(Head(s))>> \o Tail(s)

\* The ways the API answers a request for a candidate:
\*   network, notok, badjson   the call fails
\*   empty        200 with []
\*   nomeanings   an entry without meanings
\*   echo         an entry for the requested word, a noun
\*   upper        an entry for the requested word, capitalized, "Verb"
\*   query        an entry for the word the family is asked for, capitalized
\*   first        an entry for the first candidate, capitalized
\*   noword       an entry without a word field
\*   interj       an entry whose part of speech has no generic label
\*   nopos        an entry whose meaning has no part of speech
Behaviours ==
  {"network", "notok", "badjson", "empty", "nomeanings", "echo", "upper",
   "query", "first", "noword", "interj", "nopos"}

ApiResponse(behaviour, word, baseWord, candidates) ==
  IF behaviour \in {"network", "notok", "badjson"} THEN Response(behaviour, <<>>)
  ELSE IF behaviour = "empty" THEN Response("ok", <<>>)
  ELSE IF behaviour = "nomeanings" THEN Response("ok", <<Entry(Str(word), <<>>)>>)
  ELSE IF behaviour = "echo" THEN Response("ok", <<Entry(Str(word), <<Str(NOUN)>>)>>)
  ELSE IF behaviour = "upper"
    THEN Response("ok", <<Entry(Str(Capitalize(word)), <<Str(Capitalize(VERB))>>)>>)
  ELSE IF behaviour = "query"
    THEN Response("ok", <<Entry(Str(Capitalize(baseWord)), <<Str(NOUN)>>)>>)
  ELSE IF behaviour = "first"
    THEN Response("ok", <<Entry(Str(Capitalize(candidates[1])), <<Str(ADJECTIVE)>>)>>)
  ELSE IF behaviour = "noword" THEN Response("ok", <<Entry(Undefined, <<Str(NOUN)>>)>>)
  ELSE IF behaviour = "interj"
    THEN Response("ok", <<Entry(Str(word), <<Str(<<"i","n","t","e","r","j","e","c","t","i","o","n">>)>>)>>)
  ELSE Response("ok", <<Entry(Str(word), <<Undefined>>)>>)

\* A provider answers every candidate by a pattern of behaviours, repeated
MaxProviderPattern == 2

RECURSIVE PatternsUpTo(_)
PatternsUpTo(n) ==
  IF n = 0 THEN {<<>>}
  ELSE LET shorter == PatternsUpTo(n - 1) IN
         shorter \cup {Append(p, b) : p \in shorter, b \in Behaviours}

Periodic(pattern) ==
  [i \in 1..MaxPotentialForms |-> pattern[((i - 1) % Len(pattern)) + 1]]

PeriodicProviders == {Periodic(p) : p \in PatternsUpTo(MaxProviderPattern) \ {<<>>}}

\* or fails, or answers, every candidate but one
DeviantProviders ==
  {[i \in 1..MaxPotentialForms |-> IF i = at THEN b ELSE rest] :
     at \in 1..MaxPotentialForms, b \in Behaviours,
     rest \in {"network", "echo", "upper"}}

Providers == PeriodicProviders \cup DeviantProviders

FamilyWords ==
  { <<"c","r","e","a","t","e">>, <<"C","r","e","a","t","e">>, <<"h","a","p","p","y">>, <<"c","r","e","a","t","i","o","n">>, <<"l","a","r","g","e","l","y">>, <<"c","r","e","a","t","i","v","e">>,
    <<"k","i","n","d","n","e","s","s">>, <<"a","c","t">>, <<" ","R","u","n"," ">>, <<"w","e","l","l","-","k","n","o","w","n">>, <<"i","c","e"," ","c","r","e","a","m">>, <<"O","f"," ","A"," ">> }

\* With the calls settling in any order, fewer inputs
ConcWords == { <<" ","A","c","t"," ">>, <<"o","f"," ","a">> }

ConcProviders ==
  {Periodic(<<a, b>>) :
     a \in {"network", "echo"}, b \in {"network", "echo", "first", "noword"}}

\* The response to the request of call i
Reply(i) == ApiResponse(provider[i], potentialForms[i], trimmedWord, potentialForms)

\* fetchWordFamily returns at once for a phrase
SkipPhrase ==
  /\ famPc = "entry"
  /\ Includes(trimmedWord, <<" ">>)
  /\ famForms' = <<>>
  /\ famHasContent' = FALSE
  /\ famPc' = "done"
  /\ UNCHANGED <<famWord, trimmedWord, provider, potentialForms, inFlight, results>>
  /\ UNCHANGED <<rootVars, lookVars, appVars>>

\* generatePotentialForms, then potentialForms.map(verifyWordForm): every
\* request is sent before Promise.all is awaited
StartVerification ==
  /\ famPc = "entry"
  /\ ~Includes(trimmedWord, <<" ">>)
  /\ potentialForms' = GeneratePotentialForms(trimmedWord)
  /\ inFlight' = 1..Len(potentialForms')
  /\ results' = [i \in 1..Len(potentialForms') |-> Unsettled]
  /\ famPc' = "awaiting"
  /\ UNCHANGED <<famWord, trimmedWord, provider, famForms, famHasContent>>
  /\ UNCHANGED <<rootVars, lookVars, appVars>>

\* Mutant of AwaitState: the await resumes at the first call that settles
AwaitState_FirstSettled(pending) == "settled"

\* Promise.all resolves once no call is pending
AwaitState(pending) == IF pending = {} THEN "settled" ELSE "awaiting"

\* The response to request i arrives and verifyWordForm(i) settles
SettleCall(i) ==
  /\ famPc = "awaiting"
  /\ i \in inFlight
  /\ results' = StoreResult(results, i,
                  VerifyWordForm(potentialForms[i], trimmedWord, Reply(i)))
  /\ inFlight' = inFlight \ {i}
  /\ famPc' = AwaitState(inFlight')
  /\ UNCHANGED <<famWord, trimmedWord, provider, potentialForms, famForms,
                 famHasContent>>
  /\ UNCHANGED <<rootVars, lookVars, appVars>>

\* All responses arrive and all calls settle, in one step
SettleAll ==
  /\ famPc = "awaiting"
  /\ results' = [i \in 1..Len(potentialForms) |->
                   VerifyWordForm(potentialForms[i], trimmedWord, Reply(i))]
  /\ inFlight' = {}
  /\ famPc' = "settled"
  /\ UNCHANGED <<famWord, trimmedWord, provider, potentialForms, famForms,
                 famHasContent>>
  /\ UNCHANGED <<rootVars, lookVars, appVars>>

\* The filter loop, the sort, the slice and the return
ReturnFamily ==
  /\ famPc = "settled"
  /\ ~FilterResults(results, trimmedWord).threw
  /\ famForms' = FamilyOf(results, trimmedWord)
  /\ famHasContent' = FamilyHasContent(famForms')
  /\ famPc' = "done"
  /\ UNCHANGED <<famWord, trimmedWord, provider, potentialForms, inFlight, results>>
  /\ UNCHANGED <<rootVars, lookVars, appVars>>

\* The filter loop throws; the catch block returns the empty family
CatchFamilyError ==
  /\ famPc = "settled"
  /\ FilterResults(results, trimmedWord).threw
  /\ famForms' = <<>>
  /\ famHasContent' = FALSE
  /\ famPc' = "done"
  /\ UNCHANGED <<famWord, trimmedWord, provider, potentialForms, inFlight, results>>
  /\ UNCHANGED <<rootVars, lookVars, appVars>>

\* fetchWordFamily is entered: trimmedWord
FamEntry(words, providers) ==
  /\ famWord \in words
  /\ trimmedWord = TrimmedWord(famWord)
  /\ provider \in providers
  /\ potentialForms = <<>>
  /\ inFlight = {}
  /\ results = <<>>
  /\ famForms = <<>>
  /\ famHasContent = FALSE
  /\ famPc = "entry"
  /\ RootIdle
  /\ LookIdle
  /\ AppIdle

FamInit == FamEntry(FamilyWords, Providers)

FamNext ==
  \/ SkipPhrase
  \/ StartVerification
  \/ SettleAll
  \/ ReturnFamily
  \/ CatchFamilyError

\* The verification calls settle together
SpecFamily == FamInit /\ [][FamNext]_vars

FamConcInit == FamEntry(ConcWords, ConcProviders)

FamConcNext ==
  \/ SkipPhrase
  \/ StartVerification
  \/ \E i \in 1..MaxPotentialForms : SettleCall(i)
  \/ ReturnFamily
  \/ CatchFamilyError

\* The verification calls settle one by one, in any order
SpecFamilyConc == FamConcInit /\ [][FamConcNext]_vars

-----------------------------------------------------------------------------
(* fetchWordFamily: the properties *)

FamilyReturned == famPc = "done"

\* The word of a returned form, case-insensitively
FormKey(form) == ToLowerCase(form.word.chars)

\* C5: the forms that fetchWordFamily returns never contain the query word
\* (trimmed, compared without case) and never contain two entries whose
\* words are equal without case, whatever word the provider's entry carries
C5_NoQueryWordNoDuplicates ==
  FamilyReturned =>
    /\ \A i \in 1..Len(famForms) :
         FormKey(famForms[i]) # ToLowerCase(Trim(famWord))
    /\ \A i, j \in 1..Len(famForms) :
         i # j => FormKey(famForms[i]) # FormKey(famForms[j])

\* A family is returned although one entry carried the query word in another
\* spelling and two entries carried the same word, not the verified candidate
C5_Witness ==
  /\ FamilyReturned
  /\ famForms # <<>>
  /\ \E i \in 1..Len(results) :
       /\ results[i] # Null
       /\ results[i].word # Undefined
       /\ ToLowerCase(results[i].word.chars) = trimmedWord
       /\ results[i].word.chars # trimmedWord
  /\ \E i, j \in 1..Len(results) :
       /\ i < j
       /\ results[i] # Null /\ results[j] # Null
       /\ results[i].word # Undefined /\ results[j].word # Undefined
       /\ ToLowerCase(results[i].word.chars) = ToLowerCase(results[j].word.chars)
       /\ results[j].word.chars # potentialForms[j]

\* C6: fetchWordFamily returns at most 6 forms
C6_AtMostSixForms == FamilyReturned => Len(famForms) <= 6

\* More than 6 verified forms pass the filter, and 6 are returned
C6_Witness ==
  /\ FamilyReturned
  /\ results # <<>>
  /\ ~FilterResults(results, trimmedWord).threw
  /\ Len(FilterResults(results, trimmedWord).forms) > 6
  /\ Len(famForms) = 6

AllRejected == \A i \in 1..Len(results) : results[i] = Null

\* C7: when verification rejects every candidate, fetchWordFamily returns
\* an empty form list with hasContent = false, and nothing is thrown on the
\* way (the filter loop runs to its end); and in every outcome hasContent
\* is true exactly when the form list is non-empty
C7_AllRejectedGivesEmptyFamily ==
  /\ famPc = "settled" /\ AllRejected =>
       ~FilterResults(results, trimmedWord).threw
  /\ FamilyReturned =>
       /\ AllRejected => famForms = <<>> /\ famHasContent = FALSE
       /\ famHasContent <=> famForms # <<>>

\* Every call failed at the transport level or on the payload, and the
\* empty family was returned
C7_Witness ==
  /\ FamilyReturned
  /\ potentialForms # <<>>
  /\ AllRejected
  /\ provider[1] = "network"
  /\ provider[2] = "badjson"
  /\ famForms = <<>>
  /\ famHasContent = FALSE

\* What the call for candidate i resolves to, by its own response alone
Verified(i) == VerifyWordForm(potentialForms[i], trimmedWord, Reply(i))

Calls == 1..Len(potentialForms)

SettledCalls == {i \in 1..Len(results) : results[i] # Unsettled}

FailedCalls == {i \in Calls : Verified(i) = Null}

\* C8: every verification call is issued before any is awaited, the family
\* is returned only after every call has settled, and a call that fails
\* rejects its own candidate only: the forms returned are those of the
\* calls that succeeded
C8_FanOutFanIn ==
  /\ famPc = "awaiting" =>
       /\ Calls # {}
       /\ inFlight \cup SettledCalls = Calls
  /\ famPc \in {"settled", "done"} /\ potentialForms # <<>> =>
       /\ inFlight = {}
       /\ SettledCalls = Calls
       /\ \A i \in Calls : results[i] = Null <=> i \in FailedCalls
  /\ FamilyReturned /\ potentialForms # <<>> =>
       LET succeeded == SelectSeq(results, LAMBDA r : r # Null) IN
         famForms = IF FilterResults(succeeded, trimmedWord).threw THEN <<>>
                    ELSE FamilyOf(succeeded, trimmedWord)

\* Some calls failed, others succeeded, and the family holds forms
C8_Witness ==
  /\ FamilyReturned
  /\ \E i \in Calls : provider[i] = "network" /\ results[i] = Null
  /\ \E i \in Calls : results[i] # Null
  /\ famForms # <<>>

\* C9: for a word and an answer per candidate, the forms returned (which
\* and in what order) are the same for every order in which the calls
\* settle: each call writes its own slot, and the family is the one of the
\* results in candidate order
C9_OutcomeIndependentOfSettleOrder ==
  /\ \A i \in SettledCalls : results[i] = Verified(i)
  /\ FamilyReturned /\ potentialForms # <<>> =>
       famForms = FamilyOf([i \in Calls |-> Verified(i)], trimmedWord)

\* The candidate of a returned form
CandidateOf(form) == CHOOSE i \in Calls : results[i] = form

\* After the calls settled in some order, the family holds two forms that
\* the sort has put against candidate order
C9_Witness ==
  /\ FamilyReturned
  /\ \E a, b \in 1..Len(famForms) :
       a < b /\ CandidateOf(famForms[a]) > CandidateOf(famForms[b])

-----------------------------------------------------------------------------
(* dictionary-service: fetchEnglishDefinition, fetchChineseTranslation *)

\* DictionaryError
WORD_NOT_FOUND == "WORD_NOT_FOUND"
NETWORK_ERROR == "NETWORK_ERROR"
DECODING_ERROR == "DECODING_ERROR"

\* A settled promise
Fulfilled(value) == [type |-> "fulfilled", value |-> value]
Rejected(error) == [type |-> "rejected", error |-> error]

\* What fetch does: it rejects (NetworkFailure), or it resolves with a
\* response that has a status and a body; the body parses as JSON or not
NetworkFailure == [kind |-> "network"]
HttpReply(status, body) == [kind |-> "http", status |-> status, body |-> body]
BadJson == [type |-> "badjson"]
Json(value) == [type |-> "json", value |-> value]
Array(items) == [type |-> "array", items |-> items]

\* response.ok
ResponseOk(reply) == reply.status \in 200..299

\* fetchEnglishDefinition, given what fetch does
FetchEnglishDefinition(reply) ==
  IF reply.kind = "network" THEN Rejected(NETWORK_ERROR)
  ELSE IF reply.status = 404 THEN Rejected(WORD_NOT_FOUND)
  ELSE IF ~ResponseOk(reply) THEN Rejected(NETWORK_ERROR)
  ELSE IF reply.body = BadJson THEN Rejected(DECODING_ERROR)
  ELSE Fulfilled(reply.body.value)

\* Mutant of MinQuality: a match of quality 50 is good enough
MinQuality_Inclusive == 50 - 1

\* The thresholds of the alternatives
MinQuality == 50
MaxTranslationLength == 50
MaxAlternatives == 5

\* The loop over data.matches from position k on
RECURSIVE AlternativesFrom(_, _, _, _)
AlternativesFrom(items, k, seen, alternatives) ==
  IF k > Len(items) \/ Len(alternatives) >= MaxAlternatives THEN alternatives
  ELSE LET match == items[k]
           trans == Trim(match.translation)
           transLower == ToLowerCase(trans)
       IN  IF /\ match.translation # <<>>
              /\ match.quality > MinQuality
              /\ transLower \notin seen
              /\ Len(trans) < MaxTranslationLength
             THEN AlternativesFrom(items, k + 1, seen \cup {transLower},
                                   Append(alternatives, trans))
             ELSE AlternativesFrom(items, k + 1, seen, alternatives)

\* Mutant of Alternatives: the primary translation is not among the seen
Alternatives_PrimaryUnseen(primary, matches) ==
  IF matches = Undefined THEN <<>>
  ELSE AlternativesFrom(matches.items, 1, {}, <<>>)

Alternatives(primary, matches) ==
  IF matches = Undefined THEN <<>>
  ELSE AlternativesFrom(matches.items, 1, {ToLowerCase(primary)}, <<>>)

\* fetchChineseTranslation, given what fetch does
FetchChineseTranslation(reply) ==
  IF reply.kind = "network" THEN Rejected(NETWORK_ERROR)
  ELSE IF ~ResponseOk(reply) THEN Rejected(NETWORK_ERROR)
  ELSE IF reply.body = BadJson THEN Rejected(DECODING_ERROR)
  \* data.responseData of null throws a TypeError
  ELSE IF reply.body.value = Null THEN Rejected(NETWORK_ERROR)
  ELSE LET data == reply.body.value IN
    IF data.responseData # Undefined /\ data.responseData.translatedText # <<>>
      THEN Fulfilled([primary |-> data.responseData.translatedText,
                      alternatives |->
                        Alternatives(data.responseData.translatedText,
                                     data.matches)])
      ELSE Rejected(DECODING_ERROR)

-----------------------------------------------------------------------------
(* dictionary-service: lookupWord *)

\* Mutant of IsProbablePhrase: only a space marks a phrase
IsProbablePhrase_SpaceOnly(w) == Includes(w, <<" ">>)

\* trimmedWord.includes(' ') || trimmedWord.includes('-')
IsProbablePhrase(w) == Includes(w, <<" ">>) \/ Includes(w, <<"-">>)

LookupResult(w, definitions, translation, phrase) ==
  [word |-> w, englishDefinitions |-> definitions,
   chineseTranslation |-> translation, isPhrase |-> phrase]

\* Mutant of StartLookup: the translation request is not sent at the start
StartLookup_TranslationLater ==
  /\ lookPc = "entry"
  /\ lookTrimmedWord' = Trim(lookWord)
  /\ translationPromise' = Pending
  /\ englishDefinitions' = <<>>
  /\ isPhrase' = FALSE
  /\ definitionsPromise' = Pending
  /\ lookPc' = "awaitDefinitions"
  /\ lookLog' = <<"fetchEnglishDefinition">>
  /\ UNCHANGED <<lookWord, definitionsReply, translationReply, lookOutcome>>
  /\ UNCHANGED <<rootVars, famVars, appVars>>

\* lookupWord up to its first await: the translation request is sent, then
\* the definitions request
StartLookup ==
  /\ lookPc = "entry"
  /\ lookTrimmedWord' = Trim(lookWord)
  /\ translationPromise' = Pending
  /\ englishDefinitions' = <<>>
  /\ isPhrase' = FALSE
  /\ definitionsPromise' = Pending
  /\ lookPc' = "awaitDefinitions"
  /\ lookLog' = <<"fetchChineseTranslation", "fetchEnglishDefinition">>
  /\ UNCHANGED <<lookWord, definitionsReply, translationReply, lookOutcome>>
  /\ UNCHANGED <<rootVars, famVars, appVars>>

\* The dictionary API answers and fetchEnglishDefinition settles
SettleDefinitions ==
  /\ lookPc = "awaitDefinitions"
  /\ definitionsPromise = Pending
  /\ definitionsPromise' = FetchEnglishDefinition(definitionsReply)
  /\ lookLog' = Append(lookLog, "definitions settled")
  /\ UNCHANGED <<lookWord, lookTrimmedWord, definitionsReply, translationReply,
                 translationPromise, englishDefinitions, isPhrase, lookOutcome,
                 lookPc>>
  /\ UNCHANGED <<rootVars, famVars, appVars>>

\* The translation API answers and fetchChineseTranslation settles
SettleTranslation ==
  /\ lookPc \in {"awaitDefinitions", "awaitTranslation"}
  /\ translationPromise = Pending
  /\ translationPromise' = FetchChineseTranslation(translationReply)
  /\ lookLog' = Append(lookLog, "translation settled")
  /\ UNCHANGED <<lookWord, lookTrimmedWord, definitionsReply, translationReply,
                 definitionsPromise, englishDefinitions, isPhrase, lookOutcome,
                 lookPc>>
  /\ UNCHANGED <<rootVars, famVars, appVars>>

\* Mutant of ResumeAfterDefinitions: the catch block rethrows every error
\* but WORD_NOT_FOUND
ResumeAfterDefinitions_Rethrow ==
  /\ lookPc = "awaitDefinitions"
  /\ definitionsPromise # Pending
  /\ englishDefinitions' =
       IF definitionsPromise.type = "fulfilled" THEN definitionsPromise.value
       ELSE englishDefinitions
  /\ isPhrase' =
       IF definitionsPromise = Rejected(WORD_NOT_FOUND)
         THEN IsProbablePhrase(lookTrimmedWord)
         ELSE isPhrase
  /\ IF definitionsPromise.type = "rejected"
        /\ definitionsPromise # Rejected(WORD_NOT_FOUND)
       THEN lookOutcome' = definitionsPromise /\ lookPc' = "done"
       ELSE lookOutcome' = lookOutcome /\ lookPc' = "awaitTranslation"
  /\ lookLog' = Append(lookLog, "await definitions")
  /\ UNCHANGED <<lookWord, lookTrimmedWord, definitionsReply, translationReply,
                 definitionsPromise, translationPromise>>
  /\ UNCHANGED <<rootVars, famVars, appVars>>

\* lookupWord resumes after await fetchEnglishDefinition: the try block
\* completes, or the catch block runs
ResumeAfterDefinitions ==
  /\ lookPc = "awaitDefinitions"
  /\ definitionsPromise # Pending
  /\ englishDefinitions' =
       IF definitionsPromise.type = "fulfilled" THEN definitionsPromise.value
       ELSE englishDefinitions
  /\ isPhrase' =
       IF definitionsPromise = Rejected(WORD_NOT_FOUND)
         THEN IsProbablePhrase(lookTrimmedWord)
         ELSE isPhrase
  /\ lookPc' = "awaitTranslation"
  /\ lookLog' = Append(lookLog, "await definitions")
  /\ UNCHANGED <<lookWord, lookTrimmedWord, definitionsReply, translationReply,
                 definitionsPromise, translationPromise, lookOutcome>>
  /\ UNCHANGED <<rootVars, famVars, appVars>>

\* await translationPromise resolves and lookupWord returns
ReturnLookup ==
  /\ lookPc = "awaitTranslation"
  /\ translationPromise # Pending
  /\ translationPromise.type = "fulfilled"
  /\ lookOutcome' =
       Fulfilled(LookupResult(lookTrimmedWord, englishDefinitions,
                              translationPromise.value,
                              isPhrase \/ Includes(lookTrimmedWord, <<" ">>)))
  /\ lookPc' = "done"
  /\ lookLog' = Append(lookLog, "await translation")
  /\ UNCHANGED <<lookWord, lookTrimmedWord, definitionsReply, translationReply,
                 definitionsPromise, translationPromise, englishDefinitions,
                 isPhrase>>
  /\ UNCHANGED <<rootVars, famVars, appVars>>

\* Mutant of RejectLookup: the error is wrapped as a network error
RejectLookup_Wrapped ==
  /\ lookPc = "awaitTranslation"
  /\ translationPromise # Pending
  /\ translationPromise.type = "rejected"
  /\ lookOutcome' = Rejected(NETWORK_ERROR)
  /\ lookPc' = "done"
  /\ lookLog' = Append(lookLog, "await translation")
  /\ UNCHANGED <<lookWord, lookTrimmedWord, definitionsReply, translationReply,
                 definitionsPromise, translationPromise, englishDefinitions,
                 isPhrase>>
  /\ UNCHANGED <<rootVars, famVars, appVars>>

\* await translationPromise throws and lookupWord rejects with the error
RejectLookup ==
  /\ lookPc = "awaitTranslation"
  /\ translationPromise # Pending
  /\ translationPromise.type = "rejected"
  /\ lookOutcome' = Rejected(translationPromise.error)
  /\ lookPc' = "done"
  /\ lookLog' = Append(lookLog, "await translation")
  /\ UNCHANGED <<lookWord, lookTrimmedWord, definitionsReply, translationReply,
                 definitionsPromise, translationPromise, englishDefinitions,
                 isPhrase>>
  /\ UNCHANGED <<rootVars, famVars, appVars>>

-----------------------------------------------------------------------------
(* lookupWord: the inputs explored *)

LookupWords ==
  { <<"p","i","e","c","e"," ","o","f"," ","c","a","k","e">>, <<"w","e","l","l","-","k","n","o","w","n">>, <<"c","a","t">>, <<" ","c","a","t"," ">>, <<" ","i","c","e"," ","c","r","e","a","m"," "," ">>,
    <<" ","s","t","a","t","e","-","o","f","-","t","h","e","-","a","r","t">>, <<"H","e","l","l","o">> }

SomeEntry == [word |-> <<"c","a","t">>, meanings |-> <<Str(NOUN)>>]

DefinitionReplies ==
  { NetworkFailure,
    HttpReply(404, Json(Null)),
    HttpReply(404, BadJson),
    HttpReply(500, BadJson),
    HttpReply(403, Json(Null)),
    HttpReply(200, BadJson),
    HttpReply(200, Json(<<>>)),
    HttpReply(200, Json(<<SomeEntry>>)) }

Match(translation, quality) == [translation |-> translation, quality |-> quality]

SomeMatches ==
  Array(<< Match(<<"H","i">>, 90), Match(<<" ","h","i"," ">>, 60), Match(<<"H","e","y">>, 51),
           Match(<<"Y","o">>, 50), Match(<<>>, 99), Match(<<"H","E","L","L","O">>, 80) >>)

TranslationData(text, matches) ==
  [responseData |-> [translatedText |-> text], matches |-> matches]

TranslationReplies ==
  { NetworkFailure,
    HttpReply(404, Json(Null)),
    HttpReply(500, BadJson),
    HttpReply(200, BadJson),
    HttpReply(200, Json(Null)),
    HttpReply(200, Json([responseData |-> Undefined, matches |-> Undefined])),
    HttpReply(200, Json(TranslationData(<<>>, SomeMatches))),
    HttpReply(200, Json(TranslationData(<<"H","e","l","l","o">>, Undefined))),
    HttpReply(200, Json(TranslationData(<<"H","e","l","l","o">>, SomeMatches))) }

\* lookupWord is entered
LookInit ==
  /\ lookWord \in LookupWords
  /\ lookTrimmedWord = <<>>
  /\ definitionsReply \in DefinitionReplies
  /\ translationReply \in TranslationReplies
  /\ definitionsPromise = Pending
  /\ translationPromise = Pending
  /\ englishDefinitions = <<>>
  /\ isPhrase = FALSE
  /\ lookOutcome = Pending
  /\ lookLog = <<>>
  /\ lookPc = "entry"
  /\ RootIdle
  /\ FamIdle
  /\ AppIdle

LookNext ==
  \/ StartLookup
  \/ SettleDefinitions
  \/ SettleTranslation
  \/ ResumeAfterDefinitions
  \/ ReturnLookup
  \/ RejectLookup

SpecLookup == LookInit /\ [][LookNext]_vars

-----------------------------------------------------------------------------
(* lookupWord: the properties *)

LookupSettled == lookPc = "done"

\* C10: when the definitions fetch fails with WORD_NOT_FOUND and the
\* translation fetch succeeds, lookupWord succeeds with no definitions, the
\* translation as fetched, and isPhrase true exactly when the trimmed query
\* contains a space or a hyphen
C10_NotFoundDegradesToPhrase ==
  /\ LookupSettled
  /\ definitionsPromise = Rejected(WORD_NOT_FOUND)
  /\ translationPromise.type = "fulfilled"
  => /\ lookOutcome.type = "fulfilled"
     /\ lookOutcome.value.word = Trim(lookWord)
     /\ lookOutcome.value.englishDefinitions = <<>>
     /\ lookOutcome.value.chineseTranslation =
          FetchChineseTranslation(translationReply).value
     /\ lookOutcome.value.isPhrase <=>
          \E i \in 1..Len(Trim(lookWord)) : Trim(lookWord)[i] \in {" ", "-"}

\* A hyphenated query without a space is not found, is translated, and is
\* returned as a phrase without definitions
C10_Witness ==
  /\ LookupSettled
  /\ definitionsPromise = Rejected(WORD_NOT_FOUND)
  /\ translationPromise.type = "fulfilled"
  /\ Includes(lookTrimmedWord, <<"-">>)
  /\ ~Includes(lookTrimmedWord, <<" ">>)
  /\ lookOutcome.type = "fulfilled"
  /\ lookOutcome.value.isPhrase
  /\ lookOutcome.value.englishDefinitions = <<>>
  /\ lookOutcome.value.chineseTranslation.alternatives # <<>>

\* The definitions fetch failed, and not with WORD_NOT_FOUND
DefinitionsFailedOtherwise ==
  /\ definitionsPromise.type = "rejected"
  /\ definitionsPromise.error \in {NETWORK_ERROR, DECODING_ERROR}

\* C11 as stated: when the definitions fetch fails with NETWORK_ERROR or
\* DECODING_ERROR, lookupWord fails with that error kind, also when the
\* translation fetch succeeds
C11_Original ==
  LookupSettled /\ DefinitionsFailedOtherwise =>
    lookOutcome = Rejected(definitionsPromise.error)

\* C11, amended: when the definitions fetch fails with NETWORK_ERROR or
\* DECODING_ERROR, lookupWord goes on without definitions: with a
\* translation it succeeds with englishDefinitions empty, the translation as
\* fetched and isPhrase true exactly when the trimmed query contains a
\* space; without one it fails with the error of the translation fetch
C11_OtherErrorsContinue ==
  LookupSettled /\ DefinitionsFailedOtherwise =>
    IF translationPromise.type = "fulfilled"
      THEN /\ lookOutcome.type = "fulfilled"
           /\ lookOutcome.value.englishDefinitions = <<>>
           /\ lookOutcome.value.chineseTranslation =
                FetchChineseTranslation(translationReply).value
           /\ lookOutcome.value.isPhrase <=>
                \E i \in 1..Len(Trim(lookWord)) : Trim(lookWord)[i] = " "
      ELSE lookOutcome = FetchChineseTranslation(translationReply)

\* The dictionary answers a hyphenated query with a server error, the
\* translation arrives, and the lookup succeeds, not as a phrase
C11_Witness ==
  /\ LookupSettled
  /\ definitionsPromise = Rejected(NETWORK_ERROR)
  /\ definitionsReply # NetworkFailure
  /\ translationPromise.type = "fulfilled"
  /\ lookOutcome.type = "fulfilled"
  /\ Includes(lookTrimmedWord, <<"-">>)
  /\ ~lookOutcome.value.isPhrase

\* C12: when the translation fetch fails, lookupWord fails with the error
\* kind of the translation fetch, whatever the definitions fetch did and
\* whichever settled first; a result always carries a translation
C12_TranslationIsMandatory ==
  LookupSettled =>
    /\ translationPromise # Pending
    /\ translationPromise.type = "rejected" =>
         lookOutcome = Rejected(FetchChineseTranslation(translationReply).error)
    /\ lookOutcome.type = "fulfilled" =>
         /\ translationPromise.type = "fulfilled"
         /\ lookOutcome.value.chineseTranslation = translationPromise.value
         /\ lookOutcome.value.chineseTranslation.primary # <<>>

\* The definitions arrive, the translation payload is unusable, and the
\* lookup fails with DECODING_ERROR
C12_Witness ==
  /\ LookupSettled
  /\ definitionsPromise.type = "fulfilled"
  /\ definitionsPromise.value # <<>>
  /\ translationPromise = Rejected(DECODING_ERROR)
  /\ lookOutcome = Rejected(DECODING_ERROR)

-----------------------------------------------------------------------------
(* fetchChineseTranslation: the inputs explored *)

RECURSIVE Repeat(_, _)
Repeat(c, n) == IF n = 0 THEN <<>> ELSE <<c>> \o Repeat(c, n - 1)

\* The matches a provider answers with are drawn, in this order or in the
\* reverse order, from this list
MatchPool ==
  << Match(<<"H","i">>, 90),
     Match(<<"H","i">>, 60),
     Match(<<" ","h","i"," ">>, 70),
     Match(Repeat("x", 60), 95),
     Match(<<"H","e","y">>, 51),
     Match(<<"Y","o">>, 50),
     Match(Repeat("y", 50), 95),
     Match(<<" ">> \o Repeat("z", 49) \o <<" ">>, 95),
     Match(<<"H","E","L","L","O">>, 80),
     Match(<<>>, 99),
     Match(<<"S","u","p">>, 100),
     Match(<<"C","i","a","o">>, 75),
     Match(<<"H","o","l","a">>, 88) >>

Reverse(s) == [i \in 1..Len(s) |-> s[Len(s) + 1 - i]]

\* The members of the list at the positions chosen, in the list's order
RECURSIVE Sublist(_, _, _)
Sublist(list, chosen, k) ==
  IF k > Len(list) THEN <<>>
  ELSE (IF k \in chosen THEN <<list[k]>> ELSE <<>>) \o Sublist(list, chosen, k + 1)

MatchLists ==
  {Sublist(MatchPool, chosen, 1) : chosen \in SUBSET (1..Len(MatchPool))}
    \cup {Sublist(Reverse(MatchPool), chosen, 1) :
            chosen \in SUBSET (1..Len(MatchPool))}

Primaries == { <<"H","e","l","l","o">>, <<"h","i">> }

\* fetchChineseTranslation(text) is called and the provider answers
TranslateInit ==
  /\ lookWord = <<>>
  /\ lookTrimmedWord = <<>>
  /\ definitionsReply = Null
  /\ translationReply \in
       {HttpReply(200, Json(TranslationData(p, Array(m)))) :
          p \in Primaries, m \in MatchLists}
  /\ definitionsPromise = Pending
  /\ translationPromise = Pending
  /\ englishDefinitions = <<>>
  /\ isPhrase = FALSE
  /\ lookOutcome = Pending
  /\ lookLog = <<>>
  /\ lookPc = "translate"
  /\ RootIdle
  /\ FamIdle
  /\ AppIdle

\* fetchChineseTranslation settles
FetchTranslation ==
  /\ lookPc = "translate"
  /\ translationPromise' = FetchChineseTranslation(translationReply)
  /\ lookPc' = "translated"
  /\ UNCHANGED <<lookWord, lookTrimmedWord, definitionsReply, translationReply,
                 definitionsPromise, englishDefinitions, isPhrase, lookOutcome,
                 lookLog>>
  /\ UNCHANGED <<rootVars, famVars, appVars>>

TranslateNext == FetchTranslation

SpecTranslate == TranslateInit /\ [][TranslateNext]_vars

-----------------------------------------------------------------------------
(* fetchChineseTranslation: the properties *)

Translated == lookPc = "translated" /\ translationPromise.type = "fulfilled"

ReturnedPrimary == translationPromise.value.primary
ReturnedAlternatives == translationPromise.value.alternatives
ProviderMatches == translationReply.body.value.matches.items

\* C13: the alternatives that fetchChineseTranslation returns are at most 5,
\* no two of them are equal without case, and none equals the primary
\* translation without case
C13_AlternativesCappedAndDistinct ==
  Translated =>
    /\ Len(ReturnedAlternatives) <= 5
    /\ \A i, j \in 1..Len(ReturnedAlternatives) :
         i # j => ToLowerCase(ReturnedAlternatives[i])
                    # ToLowerCase(ReturnedAlternatives[j])
    /\ \A i \in 1..Len(ReturnedAlternatives) :
         ToLowerCase(ReturnedAlternatives[i]) # ToLowerCase(ReturnedPrimary)

\* The provider's matches that qualify, trimmed, in the provider's order
Qualifying ==
  LET Good(m) == m.quality > 50 /\ Len(Trim(m.translation)) < 50
      good == SelectSeq(ProviderMatches, Good)
  IN  [i \in 1..Len(good) |-> Trim(good[i].translation)]

\* a is b with some members left out
RECURSIVE IsSubsequence(_, _)
IsSubsequence(a, b) ==
  IF a = <<>> THEN TRUE
  ELSE IF b = <<>> THEN FALSE
  ELSE IF Head(a) = Head(b) THEN IsSubsequence(Tail(a), Tail(b))
  ELSE IsSubsequence(a, Tail(b))

\* Six matches qualify and differ, one more repeats the primary, and 5
\* alternatives are returned
C13_Witness ==
  /\ Translated
  /\ Cardinality({ToLowerCase(Qualifying[i]) : i \in 1..Len(Qualifying)}
                   \ {ToLowerCase(ReturnedPrimary), <<>>}) > 5
  /\ \E i \in 1..Len(Qualifying) :
       ToLowerCase(Qualifying[i]) = ToLowerCase(ReturnedPrimary)
  /\ Len(ReturnedAlternatives) = 5

\* The matches Hi/90, Hi/60, a 60-character string/95, Hey/51
ExampleMatches == <<MatchPool[1], MatchPool[2], MatchPool[4], MatchPool[5]>>

\* C14: every alternative is the trimmed translation of a match of quality
\* above 50 and of fewer than 50 characters, and the alternatives keep the
\* order of the matches; the matches Hi/90, Hi/60, a 60-character string/95,
\* Hey/51 with primary Hello give Hey once, Hi at most once and not the
\* 60-character string
C14_AlternativesQualifyInOrder ==
  Translated =>
    /\ IsSubsequence(ReturnedAlternatives, Qualifying)
    /\ ProviderMatches = ExampleMatches /\ ReturnedPrimary = <<"H","e","l","l","o">> =>
         /\ Cardinality({i \in 1..Len(ReturnedAlternatives) :
                           ReturnedAlternatives[i] = <<"H","e","y">>}) = 1
         /\ Cardinality({i \in 1..Len(ReturnedAlternatives) :
                           ReturnedAlternatives[i] = <<"H","i">>}) <= 1
         /\ \A i \in 1..Len(ReturnedAlternatives) :
              ReturnedAlternatives[i] # Repeat("x", 60)

\* The example, answered with Hi and Hey
C14_Witness ==
  /\ Translated
  /\ ProviderMatches = ExampleMatches
  /\ ReturnedPrimary = <<"H","e","l","l","o">>
  /\ ReturnedAlternatives = << <<"H","i">>, <<"H","e","y">> >>

-----------------------------------------------------------------------------
(* analyzeWordRoot: the three searches *)

\* The rows of the prefix table whose pattern starts the window and whose
\* removal leaves at least n characters
PrefixCandidates(window, n) ==
  {i \in 1..Len(prefixes) :
     StartsWith(window, prefixes[i]) /\ Len(window) - Len(prefixes[i]) >= n}

\* The rows of the suffix table whose pattern ends the window and whose
\* removal leaves at least n characters
SuffixCandidates(window, n) ==
  {i \in 1..Len(suffixes) :
     EndsWith(window, suffixes[i]) /\ Len(window) - Len(suffixes[i]) >= n}

\* The rows of the root table whose pattern occurs in the window
RootCandidates(window) == {i \in 1..Len(roots) : Includes(window, roots[i])}

\* part is the pattern of one of the rows and none of the rows has a longer
\* pattern
LongestOf(table, rows, part) ==
  /\ \E i \in rows : table[i] = part
  /\ \A j \in rows : Len(table[j]) <= Len(part)

LastOf(comps) == comps[Len(comps)]

\* C18: at each step of the prefix loop of analyzeWordRoot the pattern
\* extracted is the longest prefix-table pattern that is a literal prefix of
\* the remaining window and whose removal leaves at least 3 characters; a
\* pattern whose removal would leave fewer than 3 characters is never
\* extracted; and the first step at which no such pattern exists ends the
\* extraction of prefixes.
C18_LongestPrefixLeavingThree ==
  [][rootPc = "prefixes" =>
       LET cands == PrefixCandidates(remainingWord, 3) IN
         IF components' # components
         THEN /\ Len(components') = Len(components) + 1
              /\ SubSeq(components', 1, Len(components)) = components
              /\ LastOf(components').type = PREFIX
              /\ LongestOf(prefixes, cands, LastOf(components').part)
              /\ remainingWord = LastOf(components').part \o remainingWord'
              /\ Len(remainingWord') >= 3
              /\ rootPc' = "prefixes"
         ELSE /\ cands = {} \/ PrefixCount(components) >= MaxPrefixes
              /\ remainingWord' = remainingWord
              /\ rootPc' = "suffixes"]_vars

\* C18 witness: one prefix has been extracted from a word that starts with a
\* shorter pattern too, and with a longer pattern whose removal would have
\* left fewer than 3 characters ("contract": co, con, contra).
C18_Witness ==
  /\ rootPc = "prefixes"
  /\ Len(components) = 1
  /\ components[1].type = PREFIX
  /\ \E i \in PrefixCandidates(lowercased, 3) :
       Len(prefixes[i]) < Len(components[1].part)
  /\ \E j \in PrefixCandidates(lowercased, 0) :
       /\ Len(prefixes[j]) > Len(components[1].part)
       /\ Len(lowercased) - Len(prefixes[j]) < 3

\* One step of the suffix loop, a pattern having to leave n characters:
\* when a pattern can be taken the longest one is, from tempWord
SuffixStep(n) ==
  LET cands == SuffixCandidates(tempWord, n) IN
    IF foundSuffixes' # foundSuffixes
    THEN /\ Len(foundSuffixes') = Len(foundSuffixes) + 1
         /\ Tail(foundSuffixes') = foundSuffixes
         /\ Head(foundSuffixes').type = SUFFIX
         /\ LongestOf(suffixes, cands, Head(foundSuffixes').part)
         /\ tempWord = tempWord' \o Head(foundSuffixes').part
         /\ rootPc' = "suffixes"
    ELSE /\ cands = {} \/ Len(foundSuffixes) >= MaxSuffixes
         /\ rootPc' = "root"

\* The suffix loop starts from what the prefix loop left of the word
SuffixesFromRemainder ==
  rootPc = "suffixes" =>
    /\ lowercased = PartsOfType(components, PREFIX) \o remainingWord
    /\ remainingWord = tempWord \o PartsOfType(foundSuffixes, SUFFIX)

\* C19 as stated: the suffix loop works on the remainder left by the prefix
\* loop and, at each step, extracts the longest suffix-table pattern that is
\* a literal suffix of the window whenever its removal leaves at least 1
\* character.
C19_Original ==
  [][rootPc = "suffixes" => SuffixesFromRemainder /\ SuffixStep(1)]_vars

\* C19 (amended): the suffix loop works on the remainder left by the prefix
\* loop (not on the original word) and, at each step, extracts the longest
\* suffix-table pattern that is a literal suffix of the window whenever its
\* removal leaves at least 2 characters.
C19_LongestSuffixLeavingTwo ==
  [][rootPc = "suffixes" => SuffixesFromRemainder /\ SuffixStep(2)]_vars

\* C19 witness: a prefix was stripped and then a suffix, which is shorter
\* than the longest suffix pattern that the loop would have taken from the
\* original word ("unity": un, then y from "ity"; ity ends "unity").
C19_Witness ==
  /\ rootPc = "suffixes"
  /\ TypeCount(components, PREFIX) >= 1
  /\ Len(foundSuffixes) = 1
  /\ \E i \in SuffixCandidates(lowercased, 2) :
       Len(suffixes[i]) > Len(foundSuffixes[1].part)
  /\ \E j \in SuffixCandidates(remainingWord, 0) :
       /\ Len(suffixes[j]) > Len(foundSuffixes[1].part)
       /\ Len(remainingWord) - Len(suffixes[j]) < 2

\* The row of the longest root pattern that occurs in the window, the
\* earliest row of the static table among those of that length; 0 if none
LongestEarliestRoot(window) ==
  LET cands == RootCandidates(window) IN
    IF cands = {} THEN 0
    ELSE CHOOSE i \in cands :
           \A j \in cands :
             \/ Len(roots[j]) < Len(roots[i])
             \/ Len(roots[j]) = Len(roots[i]) /\ i <= j

\* C20: the root emitted by analyzeWordRoot is the longest root-table
\* pattern that occurs as a substring of what remains after prefix and
\* suffix stripping, the earliest in the static table among patterns of
\* equal length; only if no root pattern occurs in that remainder is the
\* lowercased word searched by the same rule; and if neither search matches
\* no ROOT is emitted.
C20_LongestEarliestRoot ==
  [][rootPc = "root" =>
       LET inRemainder == LongestEarliestRoot(remainingWord)
           inWord == LongestEarliestRoot(lowercased)
           row == IF inRemainder # 0 THEN inRemainder ELSE inWord
       IN  /\ remainingWord = tempWord
           /\ lowercased = PartsOfType(components, PREFIX) \o remainingWord
                             \o PartsOfType(foundSuffixes, SUFFIX)
           /\ IF row = 0 THEN components' = components
              ELSE components' = Append(components, Component(roots, row, ROOT))
           /\ rootPc' = "assemble"]_vars

\* C20 witness: the root emitted has a rival of the same length in the
\* remainder that comes later in the table and earlier in the word
\* ("manufacture": fact, not manu), and a shorter rival too.
C20_Witness ==
  /\ rootPc = "assemble"
  /\ components # <<>>
  /\ LastOf(components).type = ROOT
  /\ \E j \in RootCandidates(remainingWord) :
       /\ Len(roots[j]) = Len(LastOf(components).part)
       /\ j > LastOf(components).row
  /\ \E k \in RootCandidates(remainingWord) :
       Len(roots[k]) < Len(LastOf(components).part)

\* The second search: nothing in the remainder, a root in the whole word
C20_FallbackReached ==
  /\ rootPc = "assemble"
  /\ RootCandidates(remainingWord) = {}
  /\ components # <<>>
  /\ LastOf(components).type = ROOT

-----------------------------------------------------------------------------
(* The search history *)

MAX_HISTORY_SIZE == 20

\* array.indexOf(x): the first position of x, 0 when x is not a member
IndexOf(array, x) ==
  IF x \in Range(array)
    THEN CHOOSE i \in 1..Len(array) :
           array[i] = x /\ \A j \in 1..(i - 1) : array[j] # x
    ELSE 0

\* array.splice(i, 1)
Splice(array, i) == SubSeq(array, 1, i - 1) \o SubSeq(array, i + 1, Len(array))

\* localStorage.setItem(HISTORY_STORAGE_KEY, JSON.stringify(history))
Stored(history) == [type |-> "stored", json |-> history]

\* Mutant of AddedToHistory: indexOf looks for the word as typed
AddedToHistory_IndexAsTyped(history, word) ==
  LET index == IndexOf(history, word)
      removed == IF index > 0 THEN Splice(history, index) ELSE history
      unshifted == <<ToLowerCase(word)>> \o removed
  IN  IF Len(unshifted) > MAX_HISTORY_SIZE
        THEN SubSeq(unshifted, 1, MAX_HISTORY_SIZE)
        ELSE unshifted

\* searchHistory after addToHistory(word)
AddedToHistory(history, word) ==
  LET index == IndexOf(history, ToLowerCase(word))
      removed == IF index > 0 THEN Splice(history, index) ELSE history
      unshifted == <<ToLowerCase(word)>> \o removed
  IN  IF Len(unshifted) > MAX_HISTORY_SIZE
        THEN SubSeq(unshifted, 1, MAX_HISTORY_SIZE)
        ELSE unshifted

\* The number of history operations explored
MaxHistoryOps == 2

\* A search of word succeeds: handleSearch calls addToHistory(word)
AddToHistory(word) ==
  /\ historyOps < MaxHistoryOps
  /\ searchHistory' = AddedToHistory(searchHistory, word)
  /\ storedHistory' = Stored(searchHistory')
  /\ searchLog' = <<word>> \o searchLog
  /\ historyOps' = historyOps + 1
  /\ UNCHANGED <<rootVars, famVars, lookVars, usageVars, dispVars, sideVars>>

\* removeFromHistory(word): nothing happens when the word is not there
RemoveFromHistory(word) ==
  /\ historyOps < MaxHistoryOps
  /\ LET index == IndexOf(searchHistory, ToLowerCase(word)) IN
       IF index > 0
         THEN /\ searchHistory' = Splice(searchHistory, index)
              /\ storedHistory' = Stored(searchHistory')
         ELSE UNCHANGED <<searchHistory, storedHistory>>
  /\ historyOps' = historyOps + 1
  /\ UNCHANGED searchLog
  /\ UNCHANGED <<rootVars, famVars, lookVars, usageVars, dispVars, sideVars>>

\* clearHistory(): nothing happens unless the user confirms
ClearHistory(confirmed) ==
  /\ historyOps < MaxHistoryOps
  /\ IF confirmed
       THEN /\ searchHistory' = <<>>
            /\ storedHistory' = Stored(<<>>)
       ELSE UNCHANGED <<searchHistory, storedHistory>>
  /\ historyOps' = historyOps + 1
  /\ UNCHANGED searchLog
  /\ UNCHANGED <<rootVars, famVars, lookVars, usageVars, dispVars, sideVars>>

\* 22 words; the history that holds the first k of them is what k searches,
\* from the k-th word back to the first, leave behind
HistoryPool ==
  << <<"a">>, <<"b">>, <<"c">>, <<"d">>, <<"e">>, <<"f">>, <<"g">>, <<"h">>,
     <<"i">>, <<"j">>, <<"k">>, <<"l">>, <<"m">>, <<"n">>, <<"o">>, <<"p">>,
     <<"q">>, <<"r">>, <<"s">>, <<"t">>, <<"u">>, <<"v">> >>

InitialHistories ==
  {SubSeq(HistoryPool, 1, k) : k \in 0..MAX_HISTORY_SIZE}

\* The words searched and removed: the first, a middle and the twentieth
\* word of the pool, as stored and in capitals, and two words beyond
HistoryWords ==
  { <<"a">>, <<"k">>, <<"K">>, <<"T">>, <<"u">>, <<"V">> }

HistInit ==
  /\ searchHistory \in InitialHistories
  /\ storedHistory = IF searchHistory = <<>> THEN Null ELSE Stored(searchHistory)
  /\ searchLog = searchHistory
  /\ historyOps = 0
  /\ RootIdle
  /\ FamIdle
  /\ LookIdle
  /\ UsageIdle
  /\ DispIdle
  /\ SideIdle

HistNext ==
  \/ \E word \in HistoryWords : AddToHistory(word)
  \/ \E word \in HistoryWords : RemoveFromHistory(word)
  \/ \E confirmed \in BOOLEAN : ClearHistory(confirmed)

SpecHistory == HistInit /\ [][HistNext]_vars

\* The members of a sequence, each at its first position only
RECURSIVE Distinct(_)
Distinct(s) ==
  IF s = <<>> THEN <<>>
  ELSE LET h == Head(s)
           NotH(x) == x # h
       IN  <<h>> \o Distinct(SelectSeq(Tail(s), NotH))

LowerAll(s) == [i \in 1..Len(s) |-> ToLowerCase(s[i])]

NoDuplicates(s) == \A i, j \in 1..Len(s) : s[i] = s[j] => i = j

\* At most 20 entries, lowercased, without duplicates, and in the order of
\* the latest search of each: the history is the list of the words searched,
\* latest first, with some left out
HistoryHoldsLastSearches(history, log) ==
  /\ Len(history) <= 20
  /\ \A i \in 1..Len(history) : history[i] = ToLowerCase(history[i])
  /\ NoDuplicates(history)
  /\ IsSubsequence(history, Distinct(LowerAll(log)))

\* C16: starting from an empty history, after any sequence of successful
\* searches, removeFromHistory and clearHistory calls, searchHistory holds at
\* most 20 entries, all lowercased, without duplicates, most recent first;
\* a search puts the lowercased query at index 0, and when the word was there
\* already it is moved, the history keeping its length and its members.
C16_HistoryHoldsLastSearches ==
  [][/\ HistoryHoldsLastSearches(searchHistory', searchLog')
     /\ searchLog' # searchLog =>
          /\ searchHistory' # <<>>
          /\ searchHistory'[1] = ToLowerCase(Head(searchLog'))
          /\ ToLowerCase(Head(searchLog')) \in Range(searchHistory) =>
               /\ Len(searchHistory') = Len(searchHistory)
               /\ Range(searchHistory') = Range(searchHistory)
     /\ storedHistory' # storedHistory => storedHistory' = Stored(searchHistory')]_vars

\* C16 witness: a full history, after a search that pushed the oldest entry
\* out and then a search, typed in capitals, of a word that was in the
\* middle of the history
C16_Witness ==
  /\ Len(searchHistory) = MAX_HISTORY_SIZE
  /\ historyOps = 2
  /\ Len(searchLog) = MAX_HISTORY_SIZE + 2
  /\ Head(searchLog) # ToLowerCase(Head(searchLog))
  /\ searchHistory[1] = ToLowerCase(Head(searchLog))
  /\ ToLowerCase(Head(searchLog)) \in Range(Tail(Tail(searchLog)))
  /\ \E w \in Range(searchLog) : ToLowerCase(w) \notin Range(searchHistory)

-----------------------------------------------------------------------------
(* Usage Classifier: analyzeWordUsage(word, synonyms) *)

\* A ScenarioDescriptor: key, curated word set, substitutions word -> alternative
Scenario(key, wordSet, substitutions) ==
  [key |-> key, wordSet |-> wordSet, substitutions |-> substitutions]

\* The scenario tables: four scenarios with a few words each
Scenarios ==
  << Scenario("formal",
              { <<"a","s","s","i","s","t">>, <<"o","b","t","a","i","n">> },
              ( <<"h","e","l","p">> :> <<"a","s","s","i","s","t">> )
                @@ ( <<"g","e","t">> :> <<"o","b","t","a","i","n">> )),
     Scenario("casual",
              { <<"h","e","l","p">>, <<"g","e","t">>, <<"k","i","d">> },
              ( <<"a","s","s","i","s","t">> :> <<"h","e","l","p">> )),
     Scenario("academic",
              { <<"o","b","t","a","i","n">>, <<"c","h","i","l","d">> },
              ( <<"k","i","d">> :> <<"c","h","i","l","d">> )),
     Scenario("business",
              { <<"a","s","s","i","s","t">> },
              << >>) >>

\* The UsageSuggestion of one scenario: isAppropriate when the lowercased
\* word is in the scenario's word set or, under the synonym-inclusive
\* policy, when a synonym is; the substitution, if one is configured, when
\* the word is not appropriate
Suggestion(scenario, word, synonyms, withSynonyms) ==
  LET lower == ToLowerCase(word)
      appropriate ==
        \/ lower \in scenario.wordSet
        \/ withSynonyms /\ \E i \in 1..Len(synonyms) :
                             ToLowerCase(synonyms[i]) \in scenario.wordSet
  IN  [scenario |-> scenario.key,
       isAppropriate |-> appropriate,
       suggestedWord |->
         IF ~appropriate /\ lower \in DOMAIN scenario.substitutions
           THEN Str(scenario.substitutions[lower])
           ELSE Undefined]

\* At least one scenario's classification could be determined
UsageHasContent(suggestions) ==
  \E i \in 1..Len(suggestions) :
    suggestions[i].isAppropriate \/ suggestions[i].suggestedWord # Undefined

\* Mutant of AnalyzeUsage: only the scenarios with an alternative to offer
\* are emitted
AnalyzeUsage_AlternativesOnly(word, synonyms, withSynonyms) ==
  LET all == [i \in 1..Len(Scenarios) |->
                Suggestion(Scenarios[i], word, synonyms, withSynonyms)]
      Alternative(s) == ~s.isAppropriate
      suggestions == SelectSeq(all, Alternative)
  IN  [suggestions |-> suggestions, hasContent |-> UsageHasContent(suggestions)]

\* The returned object: one suggestion per scenario, in scenario order
AnalyzeUsage(word, synonyms, withSynonyms) ==
  LET suggestions == [i \in 1..Len(Scenarios) |->
                        Suggestion(Scenarios[i], word, synonyms, withSynonyms)]
  IN  [suggestions |-> suggestions, hasContent |-> UsageHasContent(suggestions)]

\* analyzeWordUsage returns; the policy on synonyms is either
AnalyzeWordUsage(withSynonyms) ==
  /\ usagePc = "entry"
  /\ usageAnalysis' = AnalyzeUsage(usageWord, usageSynonyms, withSynonyms)
  /\ usagePc' = "done"
  /\ UNCHANGED <<usageWord, usageSynonyms>>
  /\ UNCHANGED <<rootVars, famVars, lookVars, histVars, dispVars, sideVars>>

UsageWords ==
  { <<"h","e","l","p">>, <<"H","e","l","p">>, <<"a","s","s","i","s","t">>,
    <<"g","e","t">>, <<"k","i","d">>, <<"o","b","t","a","i","n">>,
    <<"c","h","i","l","d">>, <<"x","y","z">>, <<"a">> }

MaxSynonyms == 2

UsageSynonymLists ==
  UNION {[1..n -> { <<"a","s","s","i","s","t">>, <<"K","i","d">>, <<"a","i","d">> }] :
           n \in 0..MaxSynonyms}

UsageInit ==
  /\ usageWord \in UsageWords
  /\ usageSynonyms \in UsageSynonymLists
  /\ usageAnalysis = Null
  /\ usagePc = "entry"
  /\ RootIdle
  /\ FamIdle
  /\ LookIdle
  /\ HistIdle
  /\ DispIdle
  /\ SideIdle

UsageNext == \E withSynonyms \in BOOLEAN : AnalyzeWordUsage(withSynonyms)

SpecUsage == UsageInit /\ [][UsageNext]_vars

\* C17: for any non-empty word and any synonym list, analyzeWordUsage
\* returns exactly one UsageSuggestion per configured scenario, the
\* scenarios for which the word is appropriate included.
C17_OneSuggestionPerScenario ==
  (usagePc = "done" /\ usageWord # <<>>) =>
    /\ Len(usageAnalysis.suggestions) = Len(Scenarios)
    /\ \A i \in 1..Len(Scenarios) :
         \E j \in 1..Len(usageAnalysis.suggestions) :
           /\ usageAnalysis.suggestions[j].scenario = Scenarios[i].key
           /\ \A k \in 1..Len(usageAnalysis.suggestions) :
                usageAnalysis.suggestions[k].scenario = Scenarios[i].key => k = j

\* C17 witness: the word is appropriate for a scenario, not appropriate for
\* another with a substitution, and not appropriate for a third without
C17_Witness ==
  /\ usagePc = "done"
  /\ usageSynonyms # <<>>
  /\ \E i, j, k \in 1..Len(usageAnalysis.suggestions) :
       /\ usageAnalysis.suggestions[i].isAppropriate
       /\ ~usageAnalysis.suggestions[j].isAppropriate
       /\ usageAnalysis.suggestions[j].suggestedWord # Undefined
       /\ ~usageAnalysis.suggestions[k].isAppropriate
       /\ usageAnalysis.suggestions[k].suggestedWord = Undefined
-----------------------------------------------------------------------------
(* app: the views of the page *)

View(name) == [view |-> name]
LetterView(name, letter) == [view |-> name, letter |-> letter]

\* getCurrentView()
CurrentView ==
  IF resultsContainer = "flex" THEN View("results")
  ELSE IF shownSection = "notebook" THEN View("notebook")
  ELSE IF shownSection = "history" THEN View("history")
  ELSE IF shownSection = "toffle"
    THEN IF toffleView = "letter" THEN LetterView("toffle-letter", toffleCurrentLetter)
         ELSE View("toffle")
  ELSE IF shownSection = "gre"
    THEN IF greView = "letter" THEN LetterView("gre-letter", greCurrentLetter)
         ELSE View("gre")
  ELSE IF shownSection = "idiom"
    THEN IF idiomView = "letter" THEN LetterView("idiom-letter", idiomCurrentLetter)
         ELSE View("idiom")
  ELSE View("welcome")

\* showResults(): if (getCurrentView().view !== 'results') navStack.push(getCurrentView())
PushedForResults(stack) ==
  IF CurrentView.view # "results" THEN Append(stack, CurrentView) ELSE stack

-----------------------------------------------------------------------------
(* handleSearch, displayResults and displayWordFamily: one English search *)

\* result.englishDefinitions[0]?.origin || null
OriginOf(definitions) ==
  IF definitions = <<>> THEN Null
  ELSE IF "origin" \notin DOMAIN definitions[1] THEN Null
  ELSE IF definitions[1].origin = <<>> THEN Null
  ELSE Str(definitions[1].origin)

\* result.englishDefinitions[0] ? getAllSynonyms(result.englishDefinitions[0]) : []
SynonymsOf(definitions) ==
  IF definitions = <<>> THEN <<>>
  ELSE IF "synonyms" \notin DOMAIN definitions[1] THEN <<>>
  ELSE definitions[1].synonyms

\* result.isPhrase || result.word.includes(' ')
OnlySingleWords(result) == result.isPhrase \/ Includes(result.word, <<" ">>)

\* handleSearch up to await lookupWord(query): nothing happens for an empty
\* query; otherwise hideError, showLoading, hideResults and the call
HandleSearch ==
  /\ searchPc = "entry"
  /\ IF query = <<>>
       THEN /\ searchPc' = "returned"
            /\ UNCHANGED <<errorBanner, loadingIndicator, resultsContainer,
                           lookWord, lookPc>>
       ELSE /\ errorBanner' = "none"
            /\ loadingIndicator' = "flex"
            /\ resultsContainer' = "none"
            /\ lookWord' = query
            /\ lookPc' = "entry"
            /\ searchPc' = "awaitLookup"
  /\ UNCHANGED <<query, familyCardPc, currentResult, wordRootCard,
                 wordFamilyCard, wordUsageCard>>
  /\ UNCHANGED <<lookTrimmedWord, definitionsReply, translationReply,
                 definitionsPromise, translationPromise, englishDefinitions,
                 isPhrase, lookOutcome, lookLog>>
  /\ UNCHANGED <<rootVars, famVars, usageVars, histVars, sideVars>>

\* lookupWord rejects: the catch block (showError, showEmptyState) and the
\* finally block (hideLoading)
ShowSearchError ==
  /\ searchPc = "awaitLookup"
  /\ lookPc = "done"
  /\ lookOutcome.type = "rejected"
  /\ errorBanner' = "flex"
  /\ loadingIndicator' = "none"
  /\ searchPc' = "failed"
  /\ UNCHANGED <<query, familyCardPc, currentResult, resultsContainer,
                 wordRootCard, wordFamilyCard, wordUsageCard>>
  /\ lookLog' = <<>>  \* the call is over: its history is dropped
  /\ UNCHANGED <<lookWord, lookTrimmedWord, definitionsReply, translationReply,
                 definitionsPromise, translationPromise, englishDefinitions,
                 isPhrase, lookOutcome, lookPc>>
  /\ UNCHANGED <<rootVars, famVars, usageVars, histVars, sideVars>>

\* lookupWord resolves: currentResult = result, and displayResults up to
\* displayDefinitions(result)
DisplayResults ==
  /\ searchPc = "awaitLookup"
  /\ lookPc = "done"
  /\ lookOutcome.type = "fulfilled"
  /\ currentResult' = lookOutcome.value
  /\ searchPc' = "displayWordRoot"
  /\ UNCHANGED <<query, familyCardPc, loadingIndicator, resultsContainer,
                 errorBanner, wordRootCard, wordFamilyCard, wordUsageCard>>
  /\ lookLog' = <<>>  \* the call is over: its history is dropped
  /\ UNCHANGED <<lookWord, lookTrimmedWord, definitionsReply, translationReply,
                 definitionsPromise, translationPromise, englishDefinitions,
                 isPhrase, lookOutcome, lookPc>>
  /\ UNCHANGED <<rootVars, famVars, usageVars, histVars, sideVars>>

\* displayWordRoot(result) up to the call of analyzeWordRoot; a phrase hides
\* the card and returns
DisplayWordRoot ==
  /\ searchPc = "displayWordRoot"
  /\ IF OnlySingleWords(currentResult)
       THEN /\ wordRootCard' = "none"
            /\ searchPc' = "displayWordFamily"
            /\ UNCHANGED rootVars
       ELSE /\ rootWord' = currentResult.word
            /\ origin' = OriginOf(currentResult.englishDefinitions)
            /\ lowercased' = ToLowerCase(currentResult.word)
            /\ components' = <<>>
            /\ remainingWord' = ToLowerCase(currentResult.word)
            /\ foundSuffixes' = <<>>
            /\ tempWord' = <<>>
            /\ hasContent' = FALSE
            /\ rootPc' = "prefixes"
            /\ searchPc' = "analyzeWordRoot"
            /\ UNCHANGED wordRootCard
  /\ UNCHANGED <<query, familyCardPc, currentResult, loadingIndicator,
                 resultsContainer, errorBanner, wordFamilyCard, wordUsageCard>>
  /\ UNCHANGED <<famVars, lookVars, usageVars, histVars, sideVars>>

\* analyzeWordRoot has returned: the card is shown if the analysis has
\* content
ShowWordRoot ==
  /\ searchPc = "analyzeWordRoot"
  /\ rootPc = "done"
  /\ wordRootCard' = IF hasContent THEN "block" ELSE "none"
  /\ searchPc' = "displayWordFamily"
  /\ UNCHANGED <<query, familyCardPc, currentResult, loadingIndicator,
                 resultsContainer, errorBanner, wordFamilyCard, wordUsageCard>>
  /\ UNCHANGED <<rootVars, famVars, lookVars, usageVars, histVars, sideVars>>

\* displayWordFamily(result.word) up to the call of fetchWordFamily: a word
\* with a space hides the card and returns; otherwise the card shows
\* "Finding related words..."
DisplayWordFamily ==
  /\ searchPc = "displayWordFamily"
  /\ IF Includes(currentResult.word, <<" ">>)
       THEN /\ wordFamilyCard' = "none"
            /\ familyCardPc' = "done"
            /\ searchPc' = "displayWordUsage"
            /\ UNCHANGED famVars
       ELSE /\ wordFamilyCard' = "loading"
            /\ familyCardPc' = "awaitFamily"
            /\ famWord' = currentResult.word
            /\ trimmedWord' = TrimmedWord(currentResult.word)
            /\ potentialForms' = <<>>
            /\ inFlight' = {}
            /\ results' = <<>>
            /\ famForms' = <<>>
            /\ famHasContent' = FALSE
            /\ famPc' = "entry"
            /\ searchPc' = "fetchWordFamily"
            /\ UNCHANGED provider
  /\ UNCHANGED <<query, currentResult, loadingIndicator, resultsContainer,
                 errorBanner, wordRootCard, wordUsageCard>>
  /\ UNCHANGED <<rootVars, lookVars, usageVars, histVars, sideVars>>

\* displayWordUsage(result), once displayWordFamily has returned its promise
\* (fetchWordFamily has reached its await)
DisplayWordUsage(withSynonyms) ==
  /\ \/ searchPc = "displayWordUsage"
     \/ searchPc = "fetchWordFamily" /\ famPc # "entry"
  /\ wordUsageCard' =
       IF OnlySingleWords(currentResult) THEN "none"
       ELSE IF AnalyzeUsage(currentResult.word,
                            SynonymsOf(currentResult.englishDefinitions),
                            withSynonyms).hasContent
         THEN "block"
         ELSE "none"
  /\ searchPc' = "showResults"
  /\ UNCHANGED <<query, familyCardPc, currentResult, loadingIndicator,
                 resultsContainer, errorBanner, wordRootCard, wordFamilyCard>>
  /\ UNCHANGED <<rootVars, famVars, lookVars, usageVars, histVars, sideVars>>

\* showResults() at the end of displayResults
ShowResults ==
  /\ searchPc = "showResults"
  /\ resultsContainer' = "flex"
  /\ searchPc' = "addToHistory"
  /\ UNCHANGED <<query, familyCardPc, currentResult, loadingIndicator,
                 errorBanner, wordRootCard, wordFamilyCard, wordUsageCard>>
  /\ navStack' = PushedForResults(navStack)
  /\ UNCHANGED <<shownSection, toffleView, toffleCurrentLetter, greView,
                 greCurrentLetter, idiomView, idiomCurrentLetter, lastNav>>
  /\ UNCHANGED <<rootVars, famVars, lookVars, usageVars, histVars, reVars,
                 audioVars, noteVars>>

\* addToHistory(query) and the finally block (hideLoading)
FinishSearch ==
  /\ searchPc = "addToHistory"
  /\ searchHistory' = AddedToHistory(searchHistory, query)
  /\ storedHistory' = Stored(searchHistory')
  /\ searchLog' = <<query>> \o searchLog
  /\ loadingIndicator' = "none"
  /\ searchPc' = "done"
  /\ UNCHANGED historyOps
  /\ UNCHANGED <<query, familyCardPc, currentResult, resultsContainer,
                 errorBanner, wordRootCard, wordFamilyCard, wordUsageCard>>
  /\ UNCHANGED <<rootVars, famVars, lookVars, usageVars, sideVars>>

\* handleSearch is not running: the promises that settle are handled
HandlerIdle == searchPc \in {"done", "failed", "returned"}

\* A verification call of the word-family fetch settles
FamilyCallSettles(i) == HandlerIdle /\ SettleCall(i)

\* await Promise.all resumes in fetchWordFamily, which returns
FamilyFetchReturns == HandlerIdle /\ (ReturnFamily \/ CatchFamilyError)

\* Mutant of ResumeDisplayWordFamily: an empty family leaves the card as it
\* is
ResumeDisplayWordFamily_LeavesCard ==
  /\ familyCardPc = "awaitFamily"
  /\ famPc = "done"
  /\ HandlerIdle
  /\ wordFamilyCard' = IF famHasContent THEN "filled" ELSE wordFamilyCard
  /\ familyCardPc' = "done"
  /\ UNCHANGED <<query, searchPc, currentResult, loadingIndicator,
                 resultsContainer, errorBanner, wordRootCard, wordUsageCard>>
  /\ UNCHANGED <<rootVars, famVars, lookVars, usageVars, histVars, sideVars>>

\* await fetchWordFamily(word) resumes in displayWordFamily: the card is
\* hidden when the family has no content and filled otherwise
ResumeDisplayWordFamily ==
  /\ familyCardPc = "awaitFamily"
  /\ famPc = "done"
  /\ HandlerIdle
  /\ wordFamilyCard' = IF famHasContent THEN "filled" ELSE "none"
  /\ familyCardPc' = "done"
  /\ UNCHANGED <<query, searchPc, currentResult, loadingIndicator,
                 resultsContainer, errorBanner, wordRootCard, wordUsageCard>>
  /\ UNCHANGED <<rootVars, famVars, lookVars, usageVars, histVars, sideVars>>

\* What is typed in the search box
SearchInputs ==
  { <<" ","O","b","t","a","i","n"," ">>, <<"n","o","n","-","t","o","x","i","c">>,
    <<"o","f"," ","a">>, <<" "," ">> }

SearchDefinitionReplies ==
  { HttpReply(404, Json(Null)),
    HttpReply(200, Json(<<SomeEntry>>)) }

SearchTranslationReplies ==
  { NetworkFailure,
    HttpReply(200, Json(TranslationData(<<"H","e","l","l","o">>, SomeMatches))) }

SearchProviders ==
  {Periodic(<<a>>) : a \in {"network", "echo"}}

\* The page is loaded and a query is in the search box
SearchInit ==
  /\ \E input \in SearchInputs : query = Trim(input)
  /\ searchPc = "entry"
  /\ familyCardPc = "idle"
  /\ currentResult = Null
  /\ loadingIndicator = "none"
  /\ resultsContainer = "none"
  /\ errorBanner = "none"
  /\ wordRootCard = "none"
  /\ wordFamilyCard = "none"
  /\ wordUsageCard = "none"
  /\ lookWord = <<>>
  /\ lookTrimmedWord = <<>>
  /\ definitionsReply \in SearchDefinitionReplies
  /\ translationReply \in SearchTranslationReplies
  /\ definitionsPromise = Pending
  /\ translationPromise = Pending
  /\ englishDefinitions = <<>>
  /\ isPhrase = FALSE
  /\ lookOutcome = Pending
  /\ lookLog = <<>>
  /\ lookPc = "idle"
  /\ famWord = <<>>
  /\ trimmedWord = <<>>
  /\ provider \in SearchProviders
  /\ potentialForms = <<>>
  /\ inFlight = {}
  /\ results = <<>>
  /\ famForms = <<>>
  /\ famHasContent = FALSE
  /\ famPc = "idle"
  /\ RootIdle
  /\ UsageIdle
  /\ HistIdle
  /\ SideIdle

SearchNext ==
  \/ HandleSearch
  \/ LookNext
  \/ ShowSearchError
  \/ DisplayResults
  \/ DisplayWordRoot
  \/ RootNext
  \/ ShowWordRoot
  \/ DisplayWordFamily
  \/ StartVerification
  \/ \E withSynonyms \in BOOLEAN : DisplayWordUsage(withSynonyms)
  \/ ShowResults
  \/ FinishSearch
  \/ \E i \in 1..MaxPotentialForms : FamilyCallSettles(i)
  \/ FamilyFetchReturns
  \/ ResumeDisplayWordFamily

\* The continuations of settled promises run: once every verification call
\* has settled fetchWordFamily returns, and displayWordFamily resumes
SearchFairness ==
  /\ WF_vars(FamilyFetchReturns)
  /\ WF_vars(ResumeDisplayWordFamily)

SpecSearch == SearchInit /\ [][SearchNext]_vars /\ SearchFairness

\* The states of a lookup
DefinitionsSettled == definitionsPromise # Pending

EtymologyAnalysed ==
  searchPc \in {"displayWordFamily", "fetchWordFamily", "displayWordUsage",
                "showResults", "addToHistory", "done"}

UsageAnalysed == searchPc \in {"showResults", "addToHistory", "done"}

\* fetchWordFamily has been called
FamilyFetchStarted == famPc # "idle"

\* A verification call has settled
FamilyCallSettled ==
  \/ famPc \in {"settled", "done"}
  \/ famPc = "awaiting" /\ inFlight # 1..Len(potentialForms)

ResultsVisible == resultsContainer = "flex"

FamilyCardSet == familyCardPc = "done"

\* C15 as stated: PENDING, then DEFINITIONS_FETCHED or DEFINITIONS_FAILED,
\* then ANALYSIS_COMPLETE, then WORD_FAMILY_PENDING, then
\* WORD_FAMILY_COMPLETE: the word-family fetch is started only after the
\* etymology and usage analyses are complete, the results become visible
\* without waiting for the fetch to settle, and with every verification call
\* settled the card leaves its loading state.
C15_Original ==
  /\ EtymologyAnalysed => DefinitionsSettled
  /\ FamilyFetchStarted => EtymologyAnalysed /\ UsageAnalysed
  /\ famPc \in {"settled", "done"} => ResultsVisible
  /\ FamilyCardSet => wordFamilyCard \in {"filled", "none"}

\* The order of the states of a lookup in handleSearch and displayResults
LookupOrder ==
  /\ EtymologyAnalysed => DefinitionsSettled /\ lookPc = "done"
  /\ FamilyFetchStarted => EtymologyAnalysed
  /\ UsageAnalysed => famPc # "entry" /\ familyCardPc # "idle"
  /\ FamilyCallSettled => UsageAnalysed /\ ResultsVisible
  /\ FamilyCardSet => UsageAnalysed \/ searchPc = "displayWordUsage"
  /\ searchPc = "done" => ResultsVisible
  /\ FamilyCardSet => wordFamilyCard \in {"filled", "none"}
  /\ wordFamilyCard = "loading" => familyCardPc = "awaitFamily"

\* A state once entered is not left for an earlier one
LookupAdvances ==
  /\ DefinitionsSettled => DefinitionsSettled'
  /\ EtymologyAnalysed => EtymologyAnalysed'
  /\ FamilyFetchStarted => FamilyFetchStarted'
  /\ UsageAnalysed => UsageAnalysed'
  /\ FamilyCallSettled => FamilyCallSettled'
  /\ ResultsVisible => ResultsVisible'
  /\ FamilyCardSet => FamilyCardSet'

\* C15 (amended): each English lookup moves through its states only in the
\* order PENDING, then DEFINITIONS_FETCHED or DEFINITIONS_FAILED, then
\* etymology analysed, then WORD_FAMILY_PENDING, then usage analysed, then
\* WORD_FAMILY_COMPLETE: the word-family fetch is started after the
\* etymology analysis and before the usage analysis of that lookup, none of
\* its verification calls is handled before the usage analysis is complete
\* and the results are visible, the results become visible without waiting
\* for the fetch to settle, and once every verification call settles the
\* word-family card leaves its loading state (filled or hidden).
C15_LookupStatesInOrder ==
  /\ []LookupOrder
  /\ [][LookupAdvances]_vars
  /\ (famPc = "settled") ~> (wordFamilyCard # "loading")

\* C15 witness: the results are visible with both analyses done and the
\* root card shown, while the word-family card is loading and some but not
\* all verification calls have settled
C15_Witness ==
  /\ searchPc = "done"
  /\ ResultsVisible
  /\ loadingIndicator = "none"
  /\ wordRootCard = "block"
  /\ wordUsageCard = "block"
  /\ wordFamilyCard = "loading"
  /\ famPc = "awaiting"
  /\ inFlight # {}
  /\ FamilyCallSettled

\* The word-family fetch is pending before the usage analysis
C15_FetchBeforeUsage ==
  /\ famPc = "awaiting"
  /\ ~UsageAnalysed

-----------------------------------------------------------------------------
(* fetchWordFamily: the order of the forms, the filter, the candidates *)

\* The forms the filter loop kept, in the order of the candidates
KeptForms == FilterResults(results, trimmedWord).forms

\* The position of a kept form among the kept forms
KeptAt(kept, form) == CHOOSE i \in 1..Len(kept) : kept[i] = form

\* form a comes before form b in the part-of-speech priority (Noun 1, Verb 2,
\* Adjective 3, Adverb 4) or, within a category, in candidate order
ComesBefore(kept, a, b) ==
  \/ a.order < b.order
  \/ a.order = b.order /\ KeptAt(kept, a) < KeptAt(kept, b)

\* C21: the forms returned by fetchWordFamily are sorted by the priority
\* Noun, Verb, Adjective, Adverb: no form of a later category precedes a
\* form of an earlier one, forms of one category keep candidate-generation
\* order, and the truncation to 6 comes after the sort (a form that was kept
\* by the filter and is not returned comes after every returned form).
C21_SortedByPartOfSpeech ==
  (FamilyReturned /\ ~FilterResults(results, trimmedWord).threw) =>
    LET kept == KeptForms IN
      /\ \A i \in 1..Len(famForms) :
           /\ famForms[i] \in Range(kept)
           /\ famForms[i].order \in 1..4
      /\ \A i, j \in 1..Len(famForms) :
           i < j => ComesBefore(kept, famForms[i], famForms[j])
      /\ Len(famForms) = Min(6, Len(kept))
      /\ \A k \in 1..Len(kept) :
           kept[k] \notin Range(famForms) =>
             \A i \in 1..Len(famForms) : ComesBefore(kept, famForms[i], kept[k])

\* C21 witness: more than 6 forms were kept, a form of a later category was
\* kept before a form of an earlier one, two returned forms share a
\* category, and a form kept early is cut off by the truncation
C21_Witness ==
  /\ FamilyReturned
  /\ ~FilterResults(results, trimmedWord).threw
  /\ Len(KeptForms) > 6
  /\ \E i, j \in 1..Len(KeptForms) :
       i < j /\ KeptForms[i].order > KeptForms[j].order
  /\ \E i, j \in 1..Len(famForms) :
       i < j /\ famForms[i].order = famForms[j].order
  /\ \E k \in 1..6 : KeptForms[k] \notin Range(famForms)

\* The results are in and the filter loop does not throw
FilterRuns == famPc \in {"settled", "done"} /\ ~FilterResults(results, trimmedWord).threw

\* C22 as stated: at most one representative per part-of-speech category is
\* kept until the minimum fill threshold (4 forms) is met, and only then are
\* further forms of a category already represented admitted: a kept form
\* whose part of speech was represented before it has at least 4 kept forms
\* before it.
C22_Original ==
  FilterRuns =>
    LET kept == KeptForms IN
      \A i, j \in 1..Len(kept) :
        (j < i /\ kept[j].partOfSpeech = kept[i].partOfSpeech) => i - 1 >= MinFill

\* Position in the results of the candidate a kept form came from
FirstAt(form) == CHOOSE k \in 1..Len(results) :
  results[k] = form /\ \A m \in 1..(k - 1) : results[m] # form

\* The forms kept before the filter reaches results[k]
KeptBefore(kept, k) == SelectSeq(kept, LAMBDA f : FirstAt(f) < k)

\* The condition under which the filter admits results[k]
Admits(kept, k) ==
  LET before == KeptBefore(kept, k) IN
    /\ results[k] # Null
    /\ WordKey(results[k].word.chars) \notin
         {trimmedWord} \cup {WordKey(before[i].word.chars) : i \in 1..Len(before)}
    /\ \/ Len(before) < MinFill
       \/ results[k].partOfSpeech \notin
            {before[i].partOfSpeech : i \in 1..Len(before)}

\* C22 (amended): every verified candidate with a new word is admitted
\* while fewer than 4 forms are kept, whatever its part of speech; once 4
\* forms are kept, a candidate is admitted only if its part-of-speech label
\* is not yet represented.
C22_FillThenOnePerLabel ==
  FilterRuns =>
    LET kept == KeptForms IN
      /\ \A i \in 1..Len(kept) : kept[i] \in Range(results)
      /\ \A i, j \in 1..Len(kept) : i < j => FirstAt(kept[i]) < FirstAt(kept[j])
      /\ \A k \in 1..Len(results) :
           Admits(kept, k) <=>
             (results[k] \in Range(kept) /\ FirstAt(results[k]) = k)

\* Two forms of one label are kept among the first four, and a later
\* candidate with a new word is refused because its label is represented
C22_Witness ==
  /\ FilterRuns
  /\ LET kept == KeptForms IN
       /\ \E i, j \in 1..Min(MinFill, Len(kept)) :
            i < j /\ kept[i].partOfSpeech = kept[j].partOfSpeech
       /\ \E k \in 1..Len(results) :
            /\ results[k] # Null
            /\ results[k] \notin Range(kept)
            /\ WordKey(results[k].word.chars) \notin
                 {trimmedWord} \cup {WordKey(kept[i].word.chars) : i \in 1..Len(kept)}
       /\ \E i \in 1..Len(kept) : i > MinFill

\* The input of fetchWordFamily is a phrase: trimmedWord.includes(' ')
IsPhraseInput == Includes(trimmedWord, <<" ">>)

\* C23: for a single-word input at most 20 verification calls are issued,
\* one per candidate, on pairwise distinct candidates none of which is the
\* lowercased query word; for an input with a space no call is issued and
\* the result is empty.
C23_BoundedDistinctCalls ==
  /\ (~IsPhraseInput /\ famPc # "entry") =>
       /\ Len(potentialForms) <= 20
       /\ Len(results) = Len(potentialForms)
       /\ inFlight \subseteq 1..Len(potentialForms)
       /\ \A i, j \in 1..Len(potentialForms) :
            i # j => potentialForms[i] # potentialForms[j]
       /\ \A i \in 1..Len(potentialForms) :
            potentialForms[i] # ToLowerCase(Trim(famWord))
  /\ IsPhraseInput =>
       /\ potentialForms = <<>> /\ inFlight = {} /\ results = <<>>
       /\ famPc # "entry" => (famPc = "done" /\ famForms = <<>> /\ ~famHasContent)

\* Calls are in flight for a word with 20 candidates, left of more attempts
C23_Witness ==
  /\ famPc = "awaiting"
  /\ Len(potentialForms) = 20
  /\ Len(FormAttempts(trimmedWord)) > 20

\* A phrase was answered without a call
C23_PhraseAnswered == IsPhraseInput /\ famPc = "done"

\* The candidates of the query word once they are generated
Candidates == Range(potentialForms)

Consonant(c) == c \notin Vowels

\* The word ends in one consonant after one vowel after a consonant (run)
EndsShortVowelConsonant(w) ==
  /\ Len(w) >= 3
  /\ Consonant(w[Len(w)]) /\ w[Len(w)] \notin {"w", "x", "y"}
  /\ w[Len(w) - 1] \in Vowels
  /\ Consonant(w[Len(w) - 2])

\* The silent e is dropped before -ing, -ed, -ion, -ive
SilentECase(w) ==
  EndsWith(w, <<"e">>) =>
    {DropLast(w, 1) \o s : s \in {<<"i","n","g">>, <<"e","d">>, <<"i","o","n">>, <<"i","v","e">>}}
      \subseteq Candidates

\* y becomes i before -ly, -ness, -er, -est, -ed, -es
ConsonantYCase(w) ==
  EndsWithConsonantY(w) =>
    {DropLast(w, 1) \o <<"i">> \o s :
       s \in {<<"l","y">>, <<"n","e","s","s">>, <<"e","r">>, <<"e","s","t">>, <<"e","d">>, <<"e","s">>}}
      \subseteq Candidates

\* The final consonant is doubled before -ing and -ed
DoublingCase(w) ==
  EndsShortVowelConsonant(w) =>
    {w \o <<w[Len(w)]>> \o s : s \in {<<"i","n","g">>, <<"e","d">>}} \subseteq Candidates

\* Suffixes are appended directly
DirectCase(w) ==
  (~EndsWith(w, <<"e">>) /\ ~EndsWithConsonantY(w) /\ ~EndsShortVowelConsonant(w)) =>
    {w \o s : s \in {<<"i","n","g">>, <<"e","d">>, <<"l","y">>, <<"n","e","s","s">>}}
      \subseteq Candidates

CandidatesGenerated == ~IsPhraseInput /\ famPc # "entry" /\ Len(trimmedWord) >= 3

\* C24: candidate generation handles the four spelling cases: the silent e
\* is dropped before -ing/-ed/-ion/-ive, y after a consonant becomes i
\* before -ly/-ness/-er/-est/-ed/-es, a final consonant after a short vowel
\* is doubled (run -> running), and otherwise suffixes are appended directly.
C24_FourSpellingCases ==
  CandidatesGenerated =>
    /\ SilentECase(trimmedWord)
    /\ ConsonantYCase(trimmedWord)
    /\ DoublingCase(trimmedWord)
    /\ DirectCase(trimmedWord)

\* The three cases the generator does handle
C24_CasesWithoutDoubling ==
  CandidatesGenerated =>
    /\ SilentECase(trimmedWord)
    /\ ConsonantYCase(trimmedWord)
    /\ DirectCase(trimmedWord)
-----------------------------------------------------------------------------
(* lookupWord: the two requests race *)

\* Position of an event in the log, 0 if it did not happen
LogAt(event) ==
  IF event \in Range(lookLog)
    THEN CHOOSE i \in 1..Len(lookLog) : lookLog[i] = event
    ELSE 0

\* What lookupWord returns or throws, from the two replies alone
OutcomeOf(word, defReply, transReply) ==
  LET definitions == FetchEnglishDefinition(defReply)
      translation == FetchChineseTranslation(transReply)
      w == Trim(word)
  IN IF translation.type = "rejected" THEN Rejected(translation.error)
     ELSE Fulfilled(LookupResult(
            w,
            IF definitions.type = "fulfilled" THEN definitions.value ELSE <<>>,
            translation.value,
            \/ definitions = Rejected(WORD_NOT_FOUND) /\ IsProbablePhrase(w)
            \/ Includes(w, <<" ">>)))

\* C25: within one lookupWord call both requests are issued before either
\* response is awaited, and the outcome (result or error) is the same
\* whichever request settles first.
C25_BothIssuedOutcomeOrderFree ==
  /\ \A i \in 1..Len(lookLog) :
       lookLog[i] \in {"await definitions", "await translation",
                       "definitions settled", "translation settled"} =>
         /\ LogAt("fetchChineseTranslation") \in 1..(i - 1)
         /\ LogAt("fetchEnglishDefinition") \in 1..(i - 1)
  /\ lookPc = "done" =>
       lookOutcome = OutcomeOf(lookWord, definitionsReply, translationReply)

\* The translation settled before the definitions and the call returned
C25_Witness ==
  /\ lookPc = "done"
  /\ lookOutcome.type = "fulfilled"
  /\ LogAt("translation settled") < LogAt("definitions settled")

\* The definitions settled first and the call returned
C25_DefinitionsFirst ==
  /\ lookPc = "done"
  /\ lookOutcome.type = "fulfilled"
  /\ LogAt("definitions settled") < LogAt("translation settled")
-----------------------------------------------------------------------------
(* handleSearch started again before earlier searches have resolved.       *)
(* searchPc is the position of the one continuation that runs; a search    *)
(* suspended at await lookupWord is in pendingLookups, a displayWordFamily *)
(* suspended at await fetchWordFamily is in pendingFamilies. What          *)
(* lookupWord and fetchWordFamily settle with is computed from the replies *)
(* of the APIs.                                                            *)

\* The most searches started in one run
MaxSearches == 2

\* What fetchWordFamily(word) resolves to when the dictionary API answers
\* the request for candidate i as prov[i] says
FetchedFamily(word, prov) ==
  LET t == TrimmedWord(word) IN
    IF Includes(t, <<" ">>) THEN [forms |-> <<>>, hasContent |-> FALSE]
    ELSE LET candidates == GeneratePotentialForms(t)
             values == [i \in 1..Len(candidates) |->
                          VerifyWordForm(candidates[i], t,
                                         ApiResponse(prov[i], candidates[i], t, candidates))]
             forms == FamilyOf(values, t)
         IN  [forms |-> forms, hasContent |-> FamilyHasContent(forms)]

\* What lookupWord settles with for a search
LookupOf(search) ==
  OutcomeOf(search.query, search.definitionsReply, search.translationReply)

\* The word of the result of search n, and the family fetched for it
WordFor(n) == LookupOf(searches[n]).value.word
FamilyFor(n) == FetchedFamily(WordFor(n), searches[n].provider)

\* No continuation is running: an event or a settled promise can be handled
NothingRuns == searchPc \in {"idle", "awaitLookup", "done", "failed", "returned"}

\* handleSearch up to await lookupWord(query), for what is typed in the
\* search box; the record of the search holds how the APIs will answer its
\* requests
StartSearch(input, defReply, transReply, prov) ==
  /\ NothingRuns
  /\ Len(searches) < MaxSearches
  /\ IF Trim(input) = <<>>
       THEN /\ searchPc' = "returned"
            /\ UNCHANGED <<errorBanner, loadingIndicator, resultsContainer,
                           searches, pendingLookups>>
       ELSE /\ errorBanner' = "none"
            /\ loadingIndicator' = "flex"
            /\ resultsContainer' = "none"
            /\ searches' = Append(searches,
                             [query |-> Trim(input), definitionsReply |-> defReply,
                              translationReply |-> transReply, provider |-> prov])
            /\ pendingLookups' = pendingLookups \cup {Len(searches')}
            /\ searchPc' = "awaitLookup"
  /\ UNCHANGED <<query, familyCardPc, currentResult, wordRootCard,
                 wordFamilyCard, wordUsageCard>>
  /\ UNCHANGED <<pendingFamilies, runningSearch, resultWord, wordFamilyContent,
                 displayedSearch>>
  /\ UNCHANGED <<rootVars, famVars, lookVars, usageVars, histVars, audioVars,
                 navVars, noteVars>>

\* lookupWord of search n rejects: the catch block and the finally block
LookupRejects(n) ==
  /\ NothingRuns
  /\ n \in pendingLookups
  /\ LookupOf(searches[n]).type = "rejected"
  /\ pendingLookups' = pendingLookups \ {n}
  /\ runningSearch' = n
  /\ query' = searches[n].query
  /\ errorBanner' = "flex"
  /\ loadingIndicator' = "none"
  /\ searchPc' = "failed"
  /\ UNCHANGED <<familyCardPc, currentResult, resultsContainer, wordRootCard,
                 wordFamilyCard, wordUsageCard>>
  /\ UNCHANGED <<searches, pendingFamilies, resultWord, wordFamilyContent,
                 displayedSearch>>
  /\ UNCHANGED <<rootVars, famVars, lookVars, usageVars, histVars, audioVars,
                 navVars, noteVars>>

\* lookupWord of search n resolves: currentResult = result, and
\* displayResults up to displayDefinitions(result)
LookupResolves(n) ==
  /\ NothingRuns
  /\ n \in pendingLookups
  /\ LookupOf(searches[n]).type = "fulfilled"
  /\ pendingLookups' = pendingLookups \ {n}
  /\ runningSearch' = n
  /\ query' = searches[n].query
  /\ currentResult' = LookupOf(searches[n]).value
  /\ resultWord' = currentResult'.word
  /\ displayedSearch' = n
  /\ searchPc' = "displayWordRoot"
  /\ UNCHANGED <<familyCardPc, loadingIndicator, resultsContainer, errorBanner,
                 wordRootCard, wordFamilyCard, wordUsageCard>>
  /\ UNCHANGED <<searches, pendingFamilies, wordFamilyContent>>
  /\ UNCHANGED <<rootVars, famVars, lookVars, usageVars, histVars, audioVars,
                 navVars, noteVars>>

\* displayWordFamily(result.word) up to await fetchWordFamily(word)
StartFamilyFetch ==
  /\ searchPc = "displayWordFamily"
  /\ IF Includes(currentResult.word, <<" ">>)
       THEN /\ wordFamilyCard' = "none"
            /\ UNCHANGED <<wordFamilyContent, pendingFamilies>>
       ELSE /\ wordFamilyContent' = "loading"
            /\ wordFamilyCard' = "loading"
            /\ pendingFamilies' = pendingFamilies \cup {runningSearch}
  /\ searchPc' = "displayWordUsage"
  /\ UNCHANGED <<query, familyCardPc, currentResult, loadingIndicator,
                 resultsContainer, errorBanner, wordRootCard, wordUsageCard>>
  /\ UNCHANGED <<searches, pendingLookups, runningSearch, resultWord,
                 displayedSearch>>
  /\ UNCHANGED <<rootVars, famVars, lookVars, usageVars, histVars, audioVars,
                 navVars, noteVars>>

\* await fetchWordFamily(word) resumes in a displayWordFamily call: the card
\* is hidden when the family has no content; otherwise the forms are
\* written into wordFamilyContent
FamilyFetchResumes(n) ==
  /\ NothingRuns
  /\ n \in pendingFamilies
  /\ pendingFamilies' = pendingFamilies \ {n}
  /\ LET family == FamilyFor(n) IN
       IF ~family.hasContent
         THEN /\ wordFamilyCard' = "none"
              /\ UNCHANGED wordFamilyContent
         ELSE /\ wordFamilyContent' = family.forms
              /\ wordFamilyCard' = IF wordFamilyCard = "none" THEN "none" ELSE "filled"
  /\ UNCHANGED <<query, searchPc, familyCardPc, currentResult, loadingIndicator,
                 resultsContainer, errorBanner, wordRootCard, wordUsageCard>>
  /\ UNCHANGED <<searches, pendingLookups, runningSearch, resultWord,
                 displayedSearch>>
  /\ UNCHANGED <<rootVars, famVars, lookVars, usageVars, histVars, audioVars,
                 navVars, noteVars>>

\* What is typed in the search box
ReInputs ==
  { <<" ","O","b","t","a","i","n"," ">>, <<"n","o","n","-","t","o","x","i","c">>,
    <<"o","f"," ","a">>, <<" "," ">> }

ReInit == RootIdle /\ FamIdle /\ LookIdle /\ AppIdle

ReNext ==
  \/ \E input \in ReInputs, defReply \in SearchDefinitionReplies,
        transReply \in SearchTranslationReplies, prov \in SearchProviders :
       StartSearch(input, defReply, transReply, prov)
  \/ \E n \in 1..MaxSearches : LookupRejects(n)
  \/ \E n \in 1..MaxSearches : LookupResolves(n)
  \/ DisplayWordRoot
  \/ RootNext
  \/ ShowWordRoot
  \/ StartFamilyFetch
  \/ \E withSynonyms \in BOOLEAN : DisplayWordUsage(withSynonyms)
  \/ ShowResults
  \/ FinishSearch
  \/ \E n \in 1..MaxSearches : FamilyFetchResumes(n)

SpecReentrant == ReInit /\ [][ReNext]_vars

\* Every word-family fetch has settled and no continuation runs
FamiliesSettled == pendingFamilies = {} /\ NothingRuns

\* What displayWordFamily leaves on the card for the result of search n
\* when nothing interferes
FamilyCardFor(n) ==
  IF Includes(WordFor(n), <<" ">>) \/ ~FamilyFor(n).hasContent
    THEN wordFamilyCard = "none"
    ELSE wordFamilyCard = "filled" /\ wordFamilyContent = FamilyFor(n).forms

\* C26: once every pending word-family fetch has settled, the word-family
\* card shows the family of the word of the most recently displayed result:
\* a fetch started for an earlier word that settles later neither
\* overwrites nor hides the card of the newer word.
C26_FamilyCardOfDisplayedWord ==
  (FamiliesSettled /\ displayedSearch # 0) => FamilyCardFor(displayedSearch)

\* A search is in flight: its lookup is pending or its continuation runs
SearchInFlight == pendingLookups # {} \/ ~NothingRuns

\* C27: when handleSearch is started again before an earlier search has
\* resolved, then once both have settled currentResult and the displayed
\* result are those of the search started last, whichever lookup resolved
\* last, and the loading indicator is not hidden while a search is in
\* flight.
C27_LastStartedSearchWins ==
  /\ SearchInFlight => loadingIndicator = "flex"
  /\ (/\ Len(searches) >= 2
      /\ pendingLookups = {}
      /\ NothingRuns
      /\ LookupOf(searches[Len(searches)]).type = "fulfilled") =>
       /\ displayedSearch = Len(searches)
       /\ currentResult = LookupOf(searches[Len(searches)]).value
       /\ resultWord = currentResult.word
-----------------------------------------------------------------------------
(* audio-player: AudioPlayer.play, stop, toggle and the events of the      *)
(* Audio objects it creates. An Audio object keeps its handlers after the  *)
(* player has let go of it; what the browser may still deliver to it is    *)
(* in its record.                                                          *)

\* The most Audio objects created in one run
MaxAudios == 2

\* new Audio(url) followed by audio.play(): loading starts, the play event
\* is queued and the promise of play() is pending
NewAudio ==
  [ loadstart |-> FALSE,   \* loadstart has fired
    canplay |-> FALSE,     \* canplay has fired
    play |-> "queued",     \* the play event: queued or fired
    promise |-> "pending", \* the promise of play(): pending, resolved, rejected
    paused |-> FALSE,      \* pause() was called
    ended |-> FALSE,       \* ended has fired
    error |-> FALSE ]      \* error has fired

\* audio.pause()
Paused(list, a) == [list EXCEPT ![a].paused = TRUE]

\* What _notifyStateChange is called for: an event of Audio object by, or
\* a method of the player (by = 0)
Cause(by, event) == [by |-> by, event |-> event]

\* stop(): the held audio is paused and let go, the flags are cleared
Stopped(list) == IF audio # 0 THEN Paused(list, audio) ELSE list

\* play(url)
Play(url) ==
  /\ Len(audios) < MaxAudios
  /\ IF url = Null
       THEN UNCHANGED audioVars
       ELSE /\ audios' = Append(Stopped(audios), NewAudio)
            /\ audio' = Len(audios')
            /\ isPlaying' = FALSE
            /\ isLoading' = TRUE
            /\ stateChange' = Cause(0, "play()")
  /\ UNCHANGED <<rootVars, famVars, lookVars, usageVars, histVars, dispVars,
                 reVars, navVars, noteVars>>

\* stop()
Stop ==
  /\ audios' = Stopped(audios)
  /\ audio' = 0
  /\ isPlaying' = FALSE
  /\ isLoading' = FALSE
  /\ stateChange' = Cause(0, "stop()")
  /\ UNCHANGED <<rootVars, famVars, lookVars, usageVars, histVars, dispVars,
                 reVars, navVars, noteVars>>

\* toggle(url)
Toggle(url) == IF isPlaying THEN Stop ELSE Play(url)

\* An event of Audio object a is delivered to its handler, which sets the
\* flags of the player and notifies
Deliver(a, field, value, playing, loading, event) ==
  /\ audios' = [audios EXCEPT ![a][field] = value]
  /\ isPlaying' = playing
  /\ isLoading' = loading
  /\ stateChange' = Cause(a, event)
  /\ UNCHANGED audio
  /\ UNCHANGED <<rootVars, famVars, lookVars, usageVars, histVars, dispVars,
                 reVars, navVars, noteVars>>

\* onloadstart
OnLoadStart(a) ==
  /\ a \in 1..Len(audios)
  /\ ~audios[a].loadstart /\ ~audios[a].error
  /\ Deliver(a, "loadstart", TRUE, isPlaying, TRUE, "loadstart")

\* oncanplay: loading goes on after pause()
OnCanPlay(a) ==
  /\ a \in 1..Len(audios)
  /\ audios[a].loadstart /\ ~audios[a].canplay /\ ~audios[a].error
  /\ Deliver(a, "canplay", TRUE, isPlaying, FALSE, "canplay")

\* onplay: the event queued by play() is fired, also after a pause() that
\* came before it
OnPlay(a) ==
  /\ a \in 1..Len(audios)
  /\ audios[a].play = "queued"
  /\ Deliver(a, "play", "fired", TRUE, isLoading, "play")

\* onended: the audio played to its end
OnEnded(a) ==
  /\ a \in 1..Len(audios)
  /\ audios[a].promise = "resolved" /\ ~audios[a].paused /\ ~audios[a].ended
  /\ Deliver(a, "ended", TRUE, FALSE, isLoading, "ended")

\* onerror: the resource fails to load
OnError(a) ==
  /\ a \in 1..Len(audios)
  /\ ~audios[a].canplay /\ ~audios[a].error
  /\ Deliver(a, "error", TRUE, FALSE, FALSE, "error")

\* await this.audio.play() resumes: playback has started
PlayResolves(a) ==
  /\ a \in 1..Len(audios)
  /\ audios[a].promise = "pending"
  /\ audios[a].canplay /\ ~audios[a].paused
  /\ audios' = [audios EXCEPT ![a].promise = "resolved"]
  /\ UNCHANGED <<audio, isPlaying, isLoading, stateChange>>
  /\ UNCHANGED <<rootVars, famVars, lookVars, usageVars, histVars, dispVars,
                 reVars, navVars, noteVars>>

\* await this.audio.play() throws (pause() before playback started, a load
\* error, or playback not allowed): the catch block
PlayRejects(a) ==
  /\ a \in 1..Len(audios)
  /\ audios[a].promise = "pending"
  /\ Deliver(a, "promise", "rejected", FALSE, FALSE, "catch")

Urls == {Null, Str(<<"a", ".", "m", "p", "3">>)}

AudioInit == RootIdle /\ FamIdle /\ LookIdle /\ AppIdle

AudioNext ==
  \/ \E url \in Urls : Play(url)
  \/ Stop
  \/ \E url \in Urls : Toggle(url)
  \/ \E a \in 1..MaxAudios : OnLoadStart(a)
  \/ \E a \in 1..MaxAudios : OnCanPlay(a)
  \/ \E a \in 1..MaxAudios : OnPlay(a)
  \/ \E a \in 1..MaxAudios : OnEnded(a)
  \/ \E a \in 1..MaxAudios : OnError(a)
  \/ \E a \in 1..MaxAudios : PlayResolves(a)
  \/ \E a \in 1..MaxAudios : PlayRejects(a)

SpecAudio == AudioInit /\ [][AudioNext]_vars

\* An event or the rejected promise of an Audio object that is not the one
\* held is handled in this step
StaleEvent ==
  \E a \in 1..Len(audios) :
    /\ a # audio
    /\ Len(audios') = Len(audios)
    /\ audios'[a] # audios[a]

\* Nothing is pending for any Audio object after stop()
StoppedQuiet ==
  /\ audio = 0
  /\ stateChange # Null
  /\ \A a \in 1..Len(audios) :
       /\ audios[a].play = "fired"
       /\ audios[a].promise # "pending"
       /\ audios[a].canplay \/ audios[a].error

\* C28: the flags describe only the most recently started audio: no event
\* and no rejected play() promise of a replaced or stopped audio changes
\* isPlaying or isLoading or notifies; and after stop() with nothing
\* pending, isPlaying = false, isLoading = false and no audio is held.
C28_FlagsOfCurrentAudioOnly ==
  /\ [][StaleEvent => UNCHANGED <<isPlaying, isLoading, stateChange>>]_vars
  /\ [](StoppedQuiet => (~isPlaying /\ ~isLoading))

\* play(url) first stops the current audio
C28_PlayStopsCurrent ==
  \A a \in 1..Len(audios) : a # audio => audios[a].paused
-----------------------------------------------------------------------------
(* app: the navigation stack and the vocabulary sections *)

MaxNavDepth == 3

Panels == {"history", "notebook", "toffle", "gre", "idiom"}
Sections == {"toffle", "gre", "idiom"}
Letters == {Str(<<"A">>), Str(<<"B">>)}

\* the view of a section: toffleView / greView / idiomView
SectionView(section) ==
  IF section = "toffle" THEN toffleView
  ELSE IF section = "gre" THEN greView
  ELSE idiomView

\* what the last handler was; the letter grid handlers keep the stack they found
Handled(handler, section, stack) ==
  [handler |-> handler, section |-> section, stack |-> stack]

\* hideResults(); hideError() at the top of goBackToHome and showView
HideResultsAndError ==
  /\ resultsContainer' = "none"
  /\ errorBanner' = "none"
  /\ UNCHANGED <<query, searchPc, familyCardPc, currentResult, loadingIndicator,
                 wordRootCard, wordFamilyCard, wordUsageCard>>

\* showView(desc): the branches on desc.view
ShowView(desc) ==
  /\ HideResultsAndError
  /\ shownSection' =
       IF desc.view = "notebook" THEN "notebook"
       ELSE IF desc.view \in {"toffle", "toffle-letter"} THEN "toffle"
       ELSE IF desc.view \in {"gre", "gre-letter"} THEN "gre"
       ELSE IF desc.view \in {"idiom", "idiom-letter"} THEN "idiom"
       ELSE IF desc.view = "history" /\ Len(searchHistory) > 0 THEN "history"
       ELSE "welcome"
  /\ toffleView' =
       IF desc.view = "toffle-letter" THEN "letter"
       ELSE IF desc.view = "toffle" THEN "letters" ELSE toffleView
  /\ toffleCurrentLetter' =
       IF desc.view = "toffle-letter" THEN desc.letter
       ELSE IF desc.view = "toffle" THEN Null ELSE toffleCurrentLetter
  /\ greView' =
       IF desc.view = "gre-letter" THEN "letter"
       ELSE IF desc.view = "gre" THEN "letters" ELSE greView
  /\ greCurrentLetter' =
       IF desc.view = "gre-letter" THEN desc.letter
       ELSE IF desc.view = "gre" THEN Null ELSE greCurrentLetter
  /\ idiomView' =
       IF desc.view = "idiom-letter" THEN "letter"
       ELSE IF desc.view = "idiom" THEN "letters" ELSE idiomView
  /\ idiomCurrentLetter' =
       IF desc.view = "idiom-letter" THEN desc.letter
       ELSE IF desc.view = "idiom" THEN Null ELSE idiomCurrentLetter

\* goBackToHome(panel): the panel's section is shown with its letter grid;
\* no panel, or the history panel with an empty history, shows the welcome section
GoBackToHome(panel) == ShowView(View(panel))

\* navigateTo(panel): the header buttons
NavigateTo(panel) ==
  /\ Len(navStack) < MaxNavDepth
  /\ navStack' = Append(navStack, CurrentView)
  /\ GoBackToHome(panel)
  /\ lastNav' = Handled("navigateTo", panel, <<>>)
  /\ UNCHANGED <<rootVars, famVars, lookVars, usageVars, histVars, reVars,
                 audioVars, noteVars>>

\* the Back button is displayed in the notebook and vocabulary sections
BackBtnShown ==
  resultsContainer = "flex" \/ shownSection \in {"notebook", "toffle", "gre", "idiom"}

\* goBack()
GoBack ==
  /\ BackBtnShown
  /\ IF Len(navStack) = 0
       THEN /\ GoBackToHome("welcome")
            /\ navStack' = navStack
       ELSE /\ ShowView(navStack[Len(navStack)])
            /\ navStack' = SubSeq(navStack, 1, Len(navStack) - 1)
  /\ lastNav' = Handled("goBack", "none", <<>>)
  /\ UNCHANGED <<rootVars, famVars, lookVars, usageVars, histVars, reVars,
                 audioVars, noteVars>>

\* the letter grid of a section is displayed in its letters view
LetterGridShown(section) ==
  /\ resultsContainer # "flex"
  /\ shownSection = section
  /\ SectionView(section) = "letters"

\* handleToffleLetterGridClick
HandleToffleLetterGridClick(letter) ==
  /\ LetterGridShown("toffle")
  /\ Len(navStack) < MaxNavDepth
  /\ navStack' = Append(navStack, CurrentView)
  /\ toffleView' = "letter"
  /\ toffleCurrentLetter' = letter
  /\ lastNav' = Handled("letterGrid", "toffle", navStack)
  /\ UNCHANGED <<shownSection, greView, greCurrentLetter, idiomView, idiomCurrentLetter>>
  /\ UNCHANGED <<rootVars, famVars, lookVars, usageVars, histVars, dispVars,
                 reVars, audioVars, noteVars>>

\* handleGreLetterGridClick
HandleGreLetterGridClick(letter) ==
  /\ LetterGridShown("gre")
  /\ greView' = "letter"
  /\ greCurrentLetter' = letter
  /\ lastNav' = Handled("letterGrid", "gre", navStack)
  /\ UNCHANGED <<navStack, shownSection, toffleView, toffleCurrentLetter,
                 idiomView, idiomCurrentLetter>>
  /\ UNCHANGED <<rootVars, famVars, lookVars, usageVars, histVars, dispVars,
                 reVars, audioVars, noteVars>>

\* handleIdiomLetterGridClick
HandleIdiomLetterGridClick(letter) ==
  /\ LetterGridShown("idiom")
  /\ Len(navStack) < MaxNavDepth
  /\ navStack' = Append(navStack, CurrentView)
  /\ idiomView' = "letter"
  /\ idiomCurrentLetter' = letter
  /\ lastNav' = Handled("letterGrid", "idiom", navStack)
  /\ UNCHANGED <<shownSection, toffleView, toffleCurrentLetter, greView, greCurrentLetter>>
  /\ UNCHANGED <<rootVars, famVars, lookVars, usageVars, histVars, dispVars,
                 reVars, audioVars, noteVars>>

\* if (navStack.length > 0) navStack.pop()
Popped(stack) ==
  IF Len(stack) > 0 THEN SubSeq(stack, 1, Len(stack) - 1) ELSE stack

\* the 'back to letters' buttons: pop, then toffleShowLetterGrid /
\* greShowLetterGrid / idiomShowLetterGrid
BackToLetters(section) ==
  /\ resultsContainer # "flex"
  /\ shownSection = section
  /\ SectionView(section) = "letter"
  /\ navStack' = Popped(navStack)
  /\ toffleView' = IF section = "toffle" THEN "letters" ELSE toffleView
  /\ toffleCurrentLetter' = IF section = "toffle" THEN Null ELSE toffleCurrentLetter
  /\ greView' = IF section = "gre" THEN "letters" ELSE greView
  /\ greCurrentLetter' = IF section = "gre" THEN Null ELSE greCurrentLetter
  /\ idiomView' = IF section = "idiom" THEN "letters" ELSE idiomView
  /\ idiomCurrentLetter' = IF section = "idiom" THEN Null ELSE idiomCurrentLetter
  /\ lastNav' = Handled("backToLetters", section, <<>>)
  /\ UNCHANGED shownSection
  /\ UNCHANGED <<rootVars, famVars, lookVars, usageVars, histVars, dispVars,
                 reVars, audioVars, noteVars>>

\* the page after init(): loadHistory() has run, the welcome section is shown;
\* the views depend on the history only through its being empty or not
NavInit == HistInit /\ Len(searchHistory) <= 1

NavNext ==
  \/ \E panel \in Panels : NavigateTo(panel)
  \/ GoBack
  \/ \E letter \in Letters : HandleToffleLetterGridClick(letter)
  \/ \E letter \in Letters : HandleGreLetterGridClick(letter)
  \/ \E letter \in Letters : HandleIdiomLetterGridClick(letter)
  \/ \E section \in Sections : BackToLetters(section)

SpecNav == NavInit /\ [][NavNext]_vars

\* a letter's word list was opened from the grid and 'back to letters' is pressed
RoundTrip(section) ==
  /\ lastNav.handler = "letterGrid"
  /\ lastNav.section = section
  /\ lastNav'.handler = "backToLetters"

\* C29: in each vocabulary section (TOEFL, GRE, idioms), opening a letter's
\* word list from the letter grid and then pressing 'back to letters' leaves
\* navStack exactly as it was before the letter was opened, so that Back
\* still pops to the view from which the section was entered
C29_RoundTripKeepsNavStack ==
  [][\A section \in Sections : RoundTrip(section) => navStack' = lastNav.stack]_vars

\* the same for the TOEFL and idiom sections alone, whose grid handlers push
C29_ToffleAndIdiomRoundTrip ==
  [][\A section \in {"toffle", "idiom"} :
       RoundTrip(section) => navStack' = lastNav.stack]_vars

\* the section was entered from the notebook, a GRE letter was opened and
\* closed, and Back would now show the welcome section
C29_EntryLost ==
  /\ shownSection = "gre"
  /\ lastNav.handler = "backToLetters"
  /\ navStack = <<>>
-----------------------------------------------------------------------------
(* app: the notebook *)

\* The number of notebook operations explored
MaxNotebookOps == 4

\* The positions of the rendered list that are explored (data-index 0, 1, ...)
MaxNotebookLen == 5

\* localStorage.setItem(NOTEBOOK_STORAGE_KEY, JSON.stringify(notebook))
SavedNotebook(list) == [type |-> "stored", json |-> list]

\* Mutant of InNotebook: the items are compared as written
InNotebook_AsWritten(list, key) ==
  \E i \in 1..Len(list) : list[i] = key

\* notebook.some(item => item.toLowerCase() === key)
InNotebook(list, key) ==
  \E i \in 1..Len(list) : ToLowerCase(list[i]) = key

\* addToNotebook(word): the notebook afterwards
AddedToNotebook(list, word) ==
  LET w == Trim(word) IN
    IF w = <<>> THEN list
    ELSE IF InNotebook(list, ToLowerCase(w)) THEN list
    ELSE <<w>> \o list

RECURSIVE FilterOut(_, _)
\* notebook.filter(item => item.toLowerCase() !== key)
FilterOut(list, key) ==
  IF list = <<>> THEN <<>>
  ELSE IF ToLowerCase(Head(list)) = key THEN FilterOut(Tail(list), key)
  ELSE <<Head(list)>> \o FilterOut(Tail(list), key)

RECURSIVE ImportedFrom(_, _, _)
\* the loop of handleImportNotebookFile over the words of the file; seen is
\* the set of lower-cased words met so far
ImportedFrom(list, seen, words) ==
  IF words = <<>> THEN list
  ELSE LET word == Trim(Head(words))
           key == ToLowerCase(word)
       IN  IF word = <<>> \/ key \in seen
             THEN ImportedFrom(list, seen, Tail(words))
             ELSE ImportedFrom(Append(list, word), seen \cup {key}, Tail(words))

\* the notebook after the import of a file holding words
Imported(list, words) ==
  ImportedFrom(list, {ToLowerCase(list[i]) : i \in 1..Len(list)}, words)

\* [list[i], list[j]] = [list[j], list[i]] on array indices i and j
Swapped(list, i, j) ==
  [k \in 1..Len(list) |->
     IF k = i + 1 THEN list[j + 1] ELSE IF k = j + 1 THEN list[i + 1] ELSE list[k]]

\* const [word] = list.splice(fromIndex, 1); list.splice(toIndex, 0, word)
Respliced(list, fromIndex, toIndex) ==
  LET word == list[fromIndex + 1]
      rest == Splice(list, fromIndex + 1)
  IN  SubSeq(rest, 1, toIndex) \o <<word>> \o SubSeq(rest, toIndex + 1, Len(rest))

\* a handler that changed the notebook and called saveNotebook()
NotebookBecomes(handler, list) ==
  /\ notebookOps < MaxNotebookOps
  /\ notebook' = list
  /\ storedNotebook' = SavedNotebook(list)
  /\ notebookOps' = notebookOps + 1
  /\ lastNotebookOp' = [handler |-> handler, saved |-> TRUE]
  /\ UNCHANGED <<rootVars, famVars, lookVars, usageVars, histVars, dispVars,
                 reVars, audioVars, navVars>>

\* a handler that returned before it changed anything
NotebookKept(handler) ==
  /\ notebookOps < MaxNotebookOps
  /\ notebookOps' = notebookOps + 1
  /\ lastNotebookOp' = [handler |-> handler, saved |-> FALSE]
  /\ UNCHANGED <<notebook, storedNotebook>>
  /\ UNCHANGED <<rootVars, famVars, lookVars, usageVars, histVars, dispVars,
                 reVars, audioVars, navVars>>

\* addToNotebook(word)
AddToNotebook(word) ==
  IF AddedToNotebook(notebook, word) = notebook
    THEN NotebookKept("addToNotebook")
    ELSE NotebookBecomes("addToNotebook", AddedToNotebook(notebook, word))

\* removeFromNotebook(word)
RemoveFromNotebook(word) ==
  NotebookBecomes("removeFromNotebook", FilterOut(notebook, ToLowerCase(word)))

\* handleNotebookToggle(), word being the word of the result on display
HandleNotebookToggle(word) ==
  IF InNotebook(notebook, ToLowerCase(Trim(word)))
    THEN RemoveFromNotebook(Trim(word))
    ELSE AddToNotebook(Trim(word))

\* clearNotebook(): nothing happens unless the user confirms
ClearNotebook(confirmed) ==
  IF confirmed THEN NotebookBecomes("clearNotebook", <<>>) ELSE NotebookKept("clearNotebook")

\* handleImportNotebookFile: reader.onload with the words of the file
HandleImportNotebookFile(words) ==
  IF Imported(notebook, words) = notebook
    THEN NotebookKept("handleImportNotebookFile")
    ELSE NotebookBecomes("handleImportNotebookFile", Imported(notebook, words))

\* moveNotebookItemUp(index), index being the data-index of a rendered item
MoveNotebookItemUp(index) ==
  /\ index < Len(notebook)
  /\ IF index <= 0
       THEN NotebookKept("moveNotebookItemUp")
       ELSE NotebookBecomes("moveNotebookItemUp", Swapped(notebook, index - 1, index))

\* moveNotebookItemDown(index)
MoveNotebookItemDown(index) ==
  /\ index < Len(notebook)
  /\ IF index >= Len(notebook) - 1
       THEN NotebookKept("moveNotebookItemDown")
       ELSE NotebookBecomes("moveNotebookItemDown", Swapped(notebook, index, index + 1))

\* the drop and touchend handlers: an item of the list is dropped on another
Drop(fromIndex, toIndex) ==
  /\ fromIndex < Len(notebook)
  /\ toIndex < Len(notebook)
  /\ IF fromIndex = toIndex
       THEN NotebookKept("drop")
       ELSE NotebookBecomes("drop", Respliced(notebook, fromIndex, toIndex))

\* The words added, removed and toggled: two spellings of one word, a padded
\* word, other words and a blank
NotebookWords ==
  { <<"a">>, <<"A">>, <<" ", "a", " ">>, <<"b">>, <<"B">>, <<"c">>, <<" ">> }

\* The files imported: up to two words, repeated and differing in case
NotebookFiles ==
  {<<>>} \cup {<<w>> : w \in NotebookWords \cup {<<"d">>}}
         \cup {<<v, w>> : v \in {<<"d">>, <<"A">>, <<" ", "b">>},
                          w \in {<<"D">>, <<"a">>, <<"b">>, <<"c">>}}

\* The notebooks loaded at the start: no two entries equal but for case
InitialNotebooks ==
  { <<>>, << <<"a">> >>, << <<"B">>, <<"a">> >>, << <<"c">>, <<"A">>, <<"b">> >> }

Indices == 0..(MaxNotebookLen - 1)

\* the page after init(): loadNotebook() has run
NoteInit ==
  /\ RootIdle /\ FamIdle /\ LookIdle
  /\ UsageIdle /\ HistIdle /\ DispIdle
  /\ ReIdle /\ AudioIdle /\ NavIdle
  /\ notebook \in InitialNotebooks
  /\ storedNotebook = IF notebook = <<>> THEN Null ELSE SavedNotebook(notebook)
  /\ notebookOps = 0
  /\ lastNotebookOp = [handler |-> "none", saved |-> FALSE]

NoteNext ==
  \/ \E word \in NotebookWords : AddToNotebook(word)
  \/ \E word \in NotebookWords : RemoveFromNotebook(word)
  \/ \E word \in NotebookWords : HandleNotebookToggle(word)
  \/ \E confirmed \in BOOLEAN : ClearNotebook(confirmed)
  \/ \E words \in NotebookFiles : HandleImportNotebookFile(words)
  \/ \E index \in Indices : MoveNotebookItemUp(index)
  \/ \E index \in Indices : MoveNotebookItemDown(index)
  \/ \E fromIndex \in Indices : \E toIndex \in Indices : Drop(fromIndex, toIndex)

SpecNotebook == NoteInit /\ [][NoteNext]_vars

\* no two entries of the notebook are equal case-insensitively
NoCaseDuplicates(list) ==
  \A i \in 1..Len(list) : \A j \in 1..Len(list) :
    ToLowerCase(list[i]) = ToLowerCase(list[j]) => i = j

\* a step of move-up, move-down or drop
Reorders ==
  \/ \E index \in Indices : MoveNotebookItemUp(index)
  \/ \E index \in Indices : MoveNotebookItemDown(index)
  \/ \E fromIndex \in Indices : \E toIndex \in Indices : Drop(fromIndex, toIndex)

C30_DuplicateRefused ==
  /\ lastNotebookOp = [handler |-> "addToNotebook", saved |-> FALSE]
  /\ Len(notebook) >= 2

=============================================================================
